---- MODULE Spec2Model ----
(***************************************************************************)
(* A model of the rvfs package of bluefish: the HTTP client, the JSON      *)
(* parser, the resource cache and the path resolver of the Redfish         *)
(* virtual filesystem.                                                     *)
(*                                                                         *)
(* Strings are sequences of letters.  A letter is written as a TLA+        *)
(* string and stands for a fixed, non-empty run of bytes ("/", "[",        *)
(* "redfish", "@odata.", "Uri", ...).  The alphabet is chosen so that no   *)
(* letter other than "/" contains '/', '[' or ']', no letter other than    *)
(* "@odata." begins with '@odata.', and no letter other than "Uri"/"URI"   *)
(* ends with those bytes; byte-level prefix, suffix, split and trim then   *)
(* coincide with the same operations on letters.                           *)
(***************************************************************************)
EXTENDS Integers, Sequences, FiniteSets, TLC

\* ------------------------------------------------------------------
\* Strings
\* ------------------------------------------------------------------

HasPrefix(s, p) == Len(s) >= Len(p) /\ SubSeq(s, 1, Len(p)) = p

HasSuffix(s, p) == Len(s) >= Len(p) /\ SubSeq(s, Len(s) - Len(p) + 1, Len(s)) = p

TrimPrefix(s, p) == IF HasPrefix(s, p) THEN SubSeq(s, Len(p) + 1, Len(s)) ELSE s

RECURSIVE TrimRightSlash(_)
TrimRightSlash(s) ==
    IF s # <<>> /\ s[Len(s)] = "/" THEN TrimRightSlash(SubSeq(s, 1, Len(s) - 1)) ELSE s

RedfishRoot == <<"/", "redfish", "/", "v1">>

\* normalizePath: "" becomes the root, a leading slash is added, trailing
\* slashes are trimmed.
normalizePath(path) ==
    IF path = <<>> THEN RedfishRoot
    ELSE TrimRightSlash(IF path[1] # "/" THEN <<"/">> \o path ELSE path)

\* ------------------------------------------------------------------
\* JSON values, as jsonparser presents them
\* ------------------------------------------------------------------

JS(str) == [t |-> "string", s |-> str, n |-> 0, kv |-> <<>>, el |-> <<>>]
JN(num) == [t |-> "number", s |-> <<>>, n |-> num, kv |-> <<>>, el |-> <<>>]
JB(b) == [t |-> "boolean", s |-> <<>>, n |-> IF b THEN 1 ELSE 0, kv |-> <<>>, el |-> <<>>]
JNull == [t |-> "null", s |-> <<>>, n |-> 0, kv |-> <<>>, el |-> <<>>]
JO(pairs) == [t |-> "object", s |-> <<>>, n |-> 0, kv |-> pairs, el |-> <<>>]
JA(elems) == [t |-> "array", s |-> <<>>, n |-> 0, kv |-> <<>>, el |-> elems]
\* bytes that are not a JSON object: ObjectEach reports an error
JBad == [t |-> "malformed", s |-> <<>>, n |-> 0, kv |-> <<>>, el |-> <<>>]

ODataPrefix == <<"@odata.">>
ODataIDKey == <<"@odata.", "id">>
ODataTypeKey == <<"@odata.", "type">>

\* jsonparser.GetString(data, key): the string under the first occurrence of
\* key in an object; "" (with an error) when absent or not a string.
RECURSIVE FirstString(_, _)
FirstString(pairs, key) ==
    IF pairs = <<>> THEN <<>>
    ELSE IF pairs[1][1] = key
         THEN (IF pairs[1][2].t = "string" THEN pairs[1][2].s ELSE <<>>)
         ELSE FirstString(Tail(pairs), key)

GetString(data, key) == IF data.t = "object" THEN FirstString(data.kv, key) ELSE <<>>

MapPut(m, k, v) == [x \in DOMAIN m \cup {k} |-> IF x = k THEN v ELSE m[x]]

\* ------------------------------------------------------------------
\* Parser
\* ------------------------------------------------------------------

isLinkOnly(data) ==
    /\ GetString(data, ODataIDKey) # <<>>
    /\ \A i \in 1..Len(data.kv) : HasPrefix(data.kv[i][1], ODataPrefix)

isLinkArray(data) ==
    /\ data.t = "array"
    /\ Len(data.el) > 0
    /\ \A i \in 1..Len(data.el) : data.el[i].t = "object" /\ isLinkOnly(data.el[i])

extractODataID(data) == IF data.t = "object" THEN GetString(data, ODataIDKey) ELSE <<>>

classifyLink(parentPath, targetPath) ==
    LET parent == TrimRightSlash(parentPath)
        target == TrimRightSlash(targetPath)
    IN IF target = parent \/ HasPrefix(target, parent \o <<"/">>)
       THEN "ChildLink" ELSE "ChildSymlink"

isURIProperty(name) ==
    \/ HasSuffix(name, <<"Uri">>) \/ HasSuffix(name, <<"URI">>)
    \/ name = <<"@Redfish.", "ActionInfo">>
    \/ name = <<"target">>

Digits == <<"0", "1", "2", "3", "4", "5", "6", "7", "8", "9">>

\* fmt.Sprintf("[%d]", idx) for the indexes the model reaches
ElemName(idx) == <<"[", Digits[idx + 1], "]">>

Prop(name, type, value, link, children, elements) ==
    [Name |-> name, Type |-> type, Value |-> value, LinkTarget |-> link,
     Children |-> children, Elements |-> elements]

\* parseValue for the scalars parseProperty hands it: the decoded value
parseValue(value) == [t |-> value.t, s |-> value.s, n |-> value.n]

NoValue == [t |-> "none", s |-> <<>>, n |-> 0]

RECURSIVE parseProperty(_, _)
RECURSIVE parseObjectChildren(_)
RECURSIVE parseElements(_, _)

parseObjectChildren(pairs) ==
    IF pairs = <<>> THEN <<>>
    ELSE LET before == parseObjectChildren(SubSeq(pairs, 1, Len(pairs) - 1))
             k == pairs[Len(pairs)][1]
             v == pairs[Len(pairs)][2]
         IN IF HasPrefix(k, ODataPrefix) THEN before
            ELSE MapPut(before, k, parseProperty(k, v))

parseElements(elems, idx) ==
    IF idx >= Len(elems) THEN <<>>
    ELSE <<parseProperty(ElemName(idx), elems[idx + 1])>> \o parseElements(elems, idx + 1)

parseProperty(name, value) ==
    CASE value.t = "object" ->
            IF isLinkOnly(value)
            THEN Prop(name, "PropertyLink", NoValue, GetString(value, ODataIDKey), <<>>, <<>>)
            ELSE Prop(name, "PropertyObject", NoValue, <<>>,
                      parseObjectChildren(value.kv), <<>>)
      [] value.t = "array" ->
            Prop(name, "PropertyArray", NoValue, <<>>, <<>>, parseElements(value.el, 0))
      [] value.t = "string" ->
            IF isURIProperty(name) /\ HasPrefix(value.s, <<"/">>)
            THEN Prop(name, "PropertyLink", NoValue, value.s, <<>>, <<>>)
            ELSE Prop(name, "PropertySimple", parseValue(value), <<>>, <<>>, <<>>)
      [] OTHER ->
            Prop(name, "PropertySimple", parseValue(value), <<>>, <<>>, <<>>)

\* BaseName: the last segment of a path (trailing slashes dropped)
RECURSIVE LastSlash(_)
LastSlash(s) ==
    IF s = <<>> THEN 0 ELSE IF s[Len(s)] = "/" THEN Len(s) ELSE LastSlash(SubSeq(s, 1, Len(s) - 1))

BaseName(p) ==
    LET q == TrimRightSlash(p) IN SubSeq(q, LastSlash(q) + 1, Len(q))

\* a name that is the whole path
extractNameAsPath(linkPath) == linkPath

extractNameFromPath(linkPath) == BaseName(linkPath)

Child(name, type, target, parent) ==
    [Name |-> name, Type |-> type, Target |-> target, Parent |-> parent]

\* extractLinkArrayChildren: one Child per element that carries an @odata.id
\* with a non-empty last segment, inserted in array order
RECURSIVE extractLinkArrayChildren(_, _, _)
extractLinkArrayChildren(elems, parentPath, children) ==
    IF elems = <<>> THEN children
    ELSE LET before == extractLinkArrayChildren(SubSeq(elems, 1, Len(elems) - 1),
                                                parentPath, children)
             value == elems[Len(elems)]
             linkPath == extractODataID(value)
             name == extractNameFromPath(linkPath)
         IN IF value.t = "object" /\ linkPath # <<>> /\ name # <<>>
            THEN MapPut(before, name,
                        Child(name, classifyLink(parentPath, linkPath), linkPath, parentPath))
            ELSE before

\* The body of the ObjectEach callback of Parse, folded over the top-level
\* keys in document order: acc.P is resource.Properties, acc.C is
\* resource.Children.
RECURSIVE ParseTopLevel(_, _)
ParseTopLevel(pairs, path) ==
    IF pairs = <<>> THEN [P |-> <<>>, C |-> <<>>]
    ELSE LET acc == ParseTopLevel(SubSeq(pairs, 1, Len(pairs) - 1), path)
             k == pairs[Len(pairs)][1]
             v == pairs[Len(pairs)][2]
         IN IF HasPrefix(k, ODataPrefix) THEN acc
            ELSE IF v.t = "object" /\ isLinkOnly(v)
            THEN LET linkPath == extractODataID(v)
                 IN [acc EXCEPT !.C = MapPut(@, k,
                        Child(k, classifyLink(path, linkPath), linkPath, path))]
            ELSE IF k = <<"Members">> /\ v.t = "array" /\ isLinkArray(v)
            THEN [acc EXCEPT !.C = extractLinkArrayChildren(v.el, path, @)]
            ELSE [acc EXCEPT !.P = MapPut(@, k, parseProperty(k, v))]

NoResource ==
    [Path |-> <<>>, ODataID |-> <<>>, ODataType |-> <<>>, RawJSON |-> JBad,
     Properties |-> <<>>, Children |-> <<>>, Inst |-> 0]

\* Parse(path, data): a new Resource (Inst is the identity of the allocation),
\* or a ParseError when ObjectEach fails.
Parse(path, data, inst) ==
    IF data.t # "object" THEN [err |-> "ParseError", res |-> NoResource]
    ELSE LET top == ParseTopLevel(data.kv, path)
         IN [err |-> "",
             res |-> [Path |-> normalizePath(path),
                      ODataID |-> GetString(data, ODataIDKey),
                      ODataType |-> GetString(data, ODataTypeKey),
                      RawJSON |-> data,
                      Properties |-> top.P,
                      Children |-> top.C,
                      Inst |-> inst]]

\* ------------------------------------------------------------------
\* State of the cache and the client, shared by concurrent callers
\* ------------------------------------------------------------------

VARIABLES
    store,      \* ResourceCache.store: path -> Resource
    offline,    \* ResourceCache.offline
    hasClient,  \* ResourceCache.client # nil
    muW,        \* ResourceCache.mu: the goroutine holding the write lock, or "none"
    muR,        \* ResourceCache.mu: the goroutines holding the read lock
    token,      \* Client.token
    disk,       \* the content of the cache file
    pc,         \* where each goroutine is in the call it is running
    loc,        \* the locals of each goroutine's call, and what it has done so far
    crashed,    \* a goroutine panicked: the process is gone
    nextInst,   \* the next Resource allocation
    ops,        \* calls started so far
    expiries,   \* how many more times the server lets the session expire (401)
    lastInsert, \* history: path -> Inst of the latest store[path] = resource
    rv,         \* the locals of the ResolveTarget call in progress, and its result
    pv,         \* a Parser.Parse call on its own: its arguments and what it returned
    uv,         \* normalizePath calls on their own: the argument and the results
    sv,         \* the TUI's ScrapeModel, Model.mode and the messages in flight
    cv,         \* the shell's tab completion in progress
    hv,         \* history: what Invalidate and Clear have overtaken
    av,         \* the TUI's ActionModel, Model.mode and the POSTs in flight
    nv,         \* the shell's Navigator and the command it is running
    bv          \* the btsh model: the running operation and its messages

vars == <<store, offline, hasClient, muW, muR, token, disk, pc, loc,
          crashed, nextInst, ops, expiries, lastInsert, rv, pv, uv, sv, cv, hv, av, nv, bv>>

\* the goroutines of the frontends that call into the cache
Threads == {"t1", "t2"}

\* calls started in one behaviour
MaxOps == 3

\* session expiries (401 answers) in one behaviour of the cache, and of the
\* client on its own
CacheExpiries == 1
ClientExpiries == 2

\* the paths a caller of Client.Fetch passes
FetchPaths == {RedfishRoot, <<>>}

\* the paths callers of the cache pass: canonical, with a trailing slash,
\* without a leading slash, the bare slash, and the empty string
CachePaths ==
    {RedfishRoot, RedfishRoot \o <<"/">>, <<"redfish", "/", "v1">>, <<"/">>, <<>>}

SystemsPath == RedfishRoot \o <<"/", "Systems">>
Sys1Path == SystemsPath \o <<"/", "1">>
Chassis1Path == RedfishRoot \o <<"/", "Chassis", "/", "1">>

\* {"@odata.id": p}
LinkTo(p) == JO(<< <<ODataIDKey, JS(p)>> >>)

\* the service root
BodyRoot ==
    JO(<< <<ODataIDKey, JS(RedfishRoot)>>,
          << <<"Id">>, JS(<<"RootService">>) >>,
          << <<"Systems">>, LinkTo(SystemsPath) >> >>)

\* what the server sends with a 200: a resource, or bytes that do not parse
ServerBodies == {BodyRoot, JBad}

\* non-200 statuses the server answers a GET or POST with
ErrorStatuses == {401, 500}

\* the headers of a successful login: (X-Auth-Token, Location)
LoginHeaders == {<< <<"tokA">>, <<>> >>, << <<>>, <<"loc">> >>, << <<>>, <<>> >>}

SessionBased == <<"session-based">>

\* cacheEntry as Load reads it: Path, and Data with whether its base64 decodes
CacheEntry(path, decodes, json) == [Path |-> path, b64ok |-> decodes, json |-> json]

NoEntry == CacheEntry(<<>>, FALSE, JBad)

DiskMissing == [exists |-> FALSE, valid |-> FALSE, entries |-> {}]

DiskFile(entries) == [exists |-> TRUE, valid |-> TRUE, entries |-> entries]

PathY == <<"/", "y">>
PathZ == <<"/", "z">>

\* a cache file with one sound entry, one whose data does not decode and one
\* whose data is not JSON
DiskMixed ==
    DiskFile({CacheEntry(RedfishRoot, TRUE, BodyRoot), CacheEntry(PathY, FALSE, BodyRoot),
              CacheEntry(PathZ, TRUE, JBad)})

Idle ==
    [op |-> "", path |-> <<>>, data |-> JBad, res |-> NoResource, result |-> "",
     status |-> 0, fetches |-> 0, gets |-> 0, logins |-> 0, posts |-> 0,
     missed |-> FALSE, hit |-> FALSE, sawOffline |-> FALSE, wrote |-> FALSE,
     hdrTok |-> <<>>, hdrLoc |-> <<>>, ret |-> "", rem |-> {}, cur |-> NoEntry]

MapRemove(m, k) == [x \in DOMAIN m \ {k} |-> m[x]]

Holds(t) == muW = t \/ t \in muR

\* sync.RWMutex
CanRLock == muW = "none"
CanLock == muW = "none" /\ muR = {}

Goto(t, label) == pc' = [pc EXCEPT ![t] = label]

Set(t, r) == loc' = [loc EXCEPT ![t] = r]

\* a call returns: its goroutine rests at "done" with the result in loc
Finish(t, r) == Goto(t, "done") /\ Set(t, r)

Running == ~crashed

Panic(t) == crashed' = TRUE /\ Goto(t, "panicked")

\* The loop of Load over the entries of a cache file, as the constructors run
\* it before any other goroutine can see the cache.
RECURSIVE LoadEntries(_, _, _)
LoadEntries(entries, st, inst) ==
    IF entries = {} THEN [store |-> st, next |-> inst]
    ELSE LET e == CHOOSE x \in entries : TRUE
             r == Parse(e.Path, e.json, inst)
         IN IF e.b64ok /\ r.err = ""
            THEN LoadEntries(entries \ {e}, MapPut(st, e.Path, r.res), inst + 1)
            ELSE LoadEntries(entries \ {e}, st, inst)

InstsOf(st) == [p \in DOMAIN st |-> st[p].Inst]

\* NewResourceCache(client, parser, file): a client that has logged in, and
\* whatever Load could read.
InitOnline ==
    /\ disk \in {DiskMissing, DiskMixed}
    /\ hasClient = TRUE
    /\ offline = FALSE
    /\ token = <<"tokA">>
    /\ LET l == LoadEntries(disk.entries, <<>>, 1)
       IN store = l.store /\ nextInst = l.next /\ lastInsert = InstsOf(l.store)

\* NewOfflineCache(file): no client; construction fails when Load does.
InitOffline ==
    /\ disk \in {DiskMissing, DiskMixed}
    /\ hasClient = FALSE
    /\ offline = TRUE
    /\ token = <<>>
    /\ LET l == LoadEntries(disk.entries, <<>>, 1)
       IN store = l.store /\ nextInst = l.next /\ lastInsert = InstsOf(l.store)

NoProp == Prop(<<>>, "none", NoValue, <<>>, <<>>, <<>>)

\* Target, with the error ResolveTarget returned beside it
Target(type, resource, property, resourcePath) ==
    [Type |-> type, Resource |-> resource, Property |-> property,
     ResourcePath |-> resourcePath, err |-> "", errPath |-> <<>>]

NoTarget == Target("none", NoResource, NoProp, <<>>)

\* a nil Target and an error.  err is the error's type for the types of
\* types.go (NotFound, NotCached, NetworkError, HTTPError, ParseError); an error
\* made by fmt.Errorf has no type of its own and is named after its message
\* (InvalidAbsolutePath, NotAnArray, IndexOutOfBounds, CannotNavigate).
Failure(err, path) == [NoTarget EXCEPT !.err = err, !.errPath = path]

\* no ResolveTarget call in progress.  currentResource = NoResource is the nil
\* pointer, propsNil says currentProps is the nil map; gets lists the paths
\* passed to Cache.Get by this call.  last is a record of the call before it
\* with what it returned, kept only in the runs that compare two calls.
RvIdle ==
    [pc |-> "idle", base |-> <<>>, target |-> <<>>, segments |-> <<>>, i |-> 0,
     currentPath |-> <<>>, currentResource |-> NoResource, propsNil |-> TRUE,
     currentProps |-> <<>>, out |-> NoTarget, gets |-> <<>>,
     last |-> [kept |-> FALSE, base |-> <<>>, target |-> <<>>, out |-> NoTarget]]

\* no normalizePath call on its own
NoNormalize == [pc |-> "idle", path |-> <<>>, once |-> <<>>, twice |-> <<>>]

\* no Parse call on its own
NoParse ==
    [pc |-> "idle", path |-> <<>>, data |-> JBad,
     out |-> [err |-> "", res |-> NoResource],
     listings |-> <<>>]

\* no scrape yet: the ScrapeModel of NewScrapeModel under a Model in normal
\* mode.  msgs are the tea.Msg and tea.Cmd in flight; scrapes counts the
\* Start calls, closed holds the scrapes Close has ended, and late lists the
\* paths a closed scrape has called vfs.Get with.
NoScrape ==
    [mode |-> "ModeNormal", active |-> FALSE, queue |-> <<>>, done |-> 0,
     total |-> 0, current |-> <<>>, errors |-> <<>>, msgs |-> <<>>,
     scrapes |-> 0, closed |-> {}, late |-> <<>>]

\* no completion in progress.  fetched lists the paths the completion has
\* called Client.Fetch with, inst is nextInst when it began.
NoCompletion ==
    [pc |-> "idle", cwd |-> <<>>, partial |-> <<>>, out |-> {},
     fetched |-> <<>>, inst |-> 0]

\* rfui after NewActionModel: normal mode, no overlay, no command in flight.
\* posts, confirms and presses count the calls of vfs.Post, the entries into
\* PhaseConfirm and the keys pressed.
NoAction ==
    [mode |-> "ModeNormal", phase |-> "PhaseSelect", cursor |-> 0, selected |-> 0,
     params |-> <<>>, paramIdx |-> 0, input |-> <<>>, focus |-> FALSE,
     resultStatus |-> 0, resultErr |-> "", cmds |-> <<>>, msgs |-> <<>>,
     posts |-> 0, confirms |-> 0, presses |-> 0]

\* NewNavigator: cwd is the root and no command is in progress.  before is
\* the cwd the command in progress found, err the error it returns.
NoCommand ==
    [pc |-> "idle", shell |-> "", cmd |-> "", target |-> <<>>, cwd |-> RedfishRoot,
     before |-> RedfishRoot, err |-> "", commands |-> 0]

\* the stepped operations of btsh
Operations == {"scrape", "find", "export"}

\* btsh at its prompt: ModeReady, the queues, visited sets and cancellation
\* flags of shellState as newModel finds them.  msgs are the tea.Msg on the
\* way, gets the paths the step handlers of the operation handed to vfs.Get.
NoOperation ==
    [mode |-> "ModeReady", queue |-> [o \in Operations |-> <<>>],
     visited |-> [o \in Operations |-> {}],
     cancelled |-> [o \in Operations |-> FALSE],
     done |-> [o \in Operations |-> 0], total |-> [o \in Operations |-> 0],
     errors |-> <<>>, collected |-> {}, msgs |-> <<>>, gets |-> <<>>, runs |-> 0]

\* nothing invalidated yet.  pending are the paths invalidated with no Get
\* started since; first and after are the goroutines whose Get is the first,
\* or one, started after an Invalidate or Clear that covers its path had
\* returned; early are the goroutines whose Get had its response when such a
\* call returned, and stale the Resources parsed from those responses.
NoHistory ==
    [ever |-> {}, pending |-> {}, first |-> {}, after |-> {}, early |-> {},
     stale |-> {}]

InitRest ==
    /\ sv = NoScrape
    /\ cv = NoCompletion
    /\ hv = NoHistory
    /\ av = NoAction
    /\ nv = NoCommand
    /\ bv = NoOperation
    /\ muW = "none"
    /\ muR = {}
    /\ pc = [t \in Threads |-> "idle"]
    /\ loc = [t \in Threads |-> Idle]
    /\ crashed = FALSE
    /\ ops = 0

\* a cache as either constructor leaves it
Init ==
    /\ InitOnline \/ InitOffline
    /\ InitRest
    /\ expiries = CacheExpiries
    /\ rv = RvIdle
    /\ pv = NoParse
    /\ uv = NoNormalize

\* a client after NewClient, with a cache around it
InitClient ==
    /\ InitOnline
    /\ InitRest
    /\ expiries = ClientExpiries
    /\ rv = RvIdle
    /\ pv = NoParse
    /\ uv = NoNormalize

\* ------------------------------------------------------------------
\* ResourceCache.Get
\* ------------------------------------------------------------------

\* Get(path) is called: path = normalizePath(path)
GetStart(t) ==
    /\ Running /\ pc[t] = "idle" /\ ops < MaxOps
    /\ \E p \in CachePaths :
         Set(t, [Idle EXCEPT !.op = "Get", !.path = normalizePath(p)])
    /\ Goto(t, "get_rlock")
    /\ ops' = ops + 1
    /\ UNCHANGED <<store, offline, hasClient, muW, muR, token, disk, crashed,
                   nextInst, expiries, lastInsert>>

\* c.mu.RLock()
GetRLock(t) ==
    /\ Running /\ pc[t] = "get_rlock" /\ CanRLock
    /\ muR' = muR \cup {t}
    /\ Goto(t, "get_check")
    /\ UNCHANGED <<store, offline, hasClient, muW, token, disk, loc, crashed,
                   nextInst, ops, expiries, lastInsert>>

\* a lookup that never finds the entry
GetCheckAlwaysMiss(t) ==
    /\ Running /\ pc[t] = "get_check"
    /\ muR' = muR \ {t}
    /\ Goto(t, "get_offline") /\ Set(t, [loc[t] EXCEPT !.missed = TRUE])
    /\ UNCHANGED <<store, offline, hasClient, muW, token, disk, crashed,
                   nextInst, ops, expiries, lastInsert>>

\* the lookup under the read lock, and c.mu.RUnlock() on either branch
GetCheck(t) ==
    /\ Running /\ pc[t] = "get_check"
    /\ muR' = muR \ {t}
    /\ IF loc[t].path \in DOMAIN store
       THEN Finish(t, [loc[t] EXCEPT !.hit = TRUE, !.res = store[loc[t].path],
                                     !.result = "ok"])
       ELSE Goto(t, "get_offline") /\ Set(t, [loc[t] EXCEPT !.missed = TRUE])
    /\ UNCHANGED <<store, offline, hasClient, muW, token, disk, crashed,
                   nextInst, ops, expiries, lastInsert>>

\* Client.Fetch is entered: path[0] is read, then c.endpoint; an empty path or
\* a nil client panics.
FetchEnter(t) ==
    IF loc[t].path = <<>> \/ ~hasClient
    THEN Panic(t) /\ Set(t, [loc[t] EXCEPT !.fetches = @ + 1])
    ELSE /\ Goto(t, "fetch_tok1")
         /\ Set(t, [loc[t] EXCEPT !.fetches = @ + 1])
         /\ UNCHANGED crashed

\* a miss that goes to the network whatever c.offline says
GetMissIgnoringOffline(t) ==
    /\ Running /\ pc[t] = "get_offline"
    /\ pc' = [pc EXCEPT ![t] = IF loc[t].path = <<>> \/ ~hasClient
                               THEN "panicked" ELSE "fetch_tok1"]
    /\ crashed' = (loc[t].path = <<>> \/ ~hasClient)
    /\ Set(t, [loc[t] EXCEPT !.sawOffline = offline, !.fetches = @ + 1])
    /\ UNCHANGED <<store, offline, hasClient, muW, muR, token, disk,
                   nextInst, ops, expiries, lastInsert>>

\* not cached: the offline check (c.offline is read without the lock), then
\* the call of c.client.Fetch(path)
GetMiss(t) ==
    /\ Running /\ pc[t] = "get_offline"
    /\ IF offline
       THEN /\ Finish(t, [loc[t] EXCEPT !.sawOffline = TRUE, !.result = "NotCached"])
            /\ UNCHANGED crashed
       ELSE FetchEnter(t)
    /\ UNCHANGED <<store, offline, hasClient, muW, muR, token, disk,
                   nextInst, ops, expiries, lastInsert>>

\* ------------------------------------------------------------------
\* Client: Fetch, Login, Logout.  The client has no lock.  A goroutine whose
\* pc is one of the labels below is at an access of c.token; nothing orders
\* it against another goroutine at such a label.
\* ------------------------------------------------------------------

TokenReadLabels == {"fetch_tok1", "fetch_tok2", "login_chk", "post_tok1", "post_tok2"}

TokenWriteLabels == {"login_tok1", "login_tok2", "logout_tok"}

AtTokenRead(t) == pc[t] \in TokenReadLabels

AtTokenWrite(t) == pc[t] \in TokenWriteLabels

\* t reads c.token while another goroutine is writing it: the string read may
\* be torn, and using it may fault
RacyRead(t) == \E u \in Threads \ {t} : AtTokenWrite(u)

\* What one GET of Fetch can end in, after c.token was read into the request:
\* a transport error, a status with a body, a body whose read fails, or a
\* fault on a torn token.
Outcome(kind, status, body) == [k |-> kind, st |-> status, body |-> body]

\* the server answers 401 only while the session can still expire
AnswerStatuses(statuses) == {st \in statuses : st = 401 => expiries > 0}

Expire(o) == expiries' = IF o.st = 401 THEN expiries - 1 ELSE expiries

GetOutcomes(t) ==
    {Outcome("neterr", 0, JBad), Outcome("readerr", 200, JBad)}
    \cup {Outcome("ok", 200, b) : b \in ServerBodies}
    \cup {Outcome("status", st, JBad) : st \in AnswerStatuses(ErrorStatuses)}
    \cup (IF RacyRead(t) THEN {Outcome("fault", 0, JBad)} ELSE {})

\* Fetch after http.Do: on the first attempt a 401 calls Login; otherwise a
\* status other than 200 is an HTTPError, a failing transport or body read a
\* NetworkError, and a body is returned to Get, which calls Parse.
FetchRespond(t, first) ==
    \E o \in GetOutcomes(t) :
      LET l == [loc[t] EXCEPT !.gets = @ + 1, !.status = o.st]
      IN /\ Expire(o)
         /\ CASE o.k = "fault" -> Panic(t) /\ UNCHANGED loc
           [] o.k \in {"neterr", "readerr"} ->
                Finish(t, [l EXCEPT !.result = "NetworkError"]) /\ UNCHANGED crashed
           [] o.k = "ok" /\ loc[t].op = "Get" ->
                Goto(t, "get_parse") /\ Set(t, [l EXCEPT !.data = o.body])
                /\ UNCHANGED crashed
           [] o.k = "ok" ->
                Finish(t, [l EXCEPT !.data = o.body, !.result = "ok"])
                /\ UNCHANGED crashed
           [] o.k = "status" /\ o.st = 401 /\ first ->
                Goto(t, "login_do")
                /\ Set(t, [l EXCEPT !.logins = @ + 1, !.ret = "fetch"])
                /\ UNCHANGED crashed
           [] OTHER ->
                Finish(t, [l EXCEPT !.result = "HTTPError"]) /\ UNCHANGED crashed

\* a caller holding the client calls Fetch(path) itself
FetchCall(t) ==
    /\ Running /\ pc[t] = "idle" /\ ops < MaxOps /\ hasClient
    /\ \E p \in FetchPaths :
         /\ pc' = [pc EXCEPT ![t] = IF p = <<>> THEN "panicked" ELSE "fetch_tok1"]
         /\ crashed' = (p = <<>>)
         /\ Set(t, [Idle EXCEPT !.op = "Fetch", !.path = p, !.fetches = 1])
    /\ ops' = ops + 1
    /\ UNCHANGED <<store, offline, hasClient, muW, muR, token, disk,
                   nextInst, expiries, lastInsert>>

\* the first GET of Fetch
FetchGet1(t) ==
    /\ Running /\ pc[t] = "fetch_tok1"
    /\ FetchRespond(t, TRUE)
    /\ UNCHANGED <<store, offline, hasClient, muW, muR, token, disk,
                   nextInst, ops, lastInsert>>

\* a re-issued GET that is treated like the first: another 401, another Login
FetchGet2Retrying(t) ==
    /\ Running /\ pc[t] = "fetch_tok2"
    /\ FetchRespond(t, TRUE)
    /\ UNCHANGED <<store, offline, hasClient, muW, muR, token, disk,
                   nextInst, ops, lastInsert>>

\* the GET re-issued after a successful Login
FetchGet2(t) ==
    /\ Running /\ pc[t] = "fetch_tok2"
    /\ FetchRespond(t, FALSE)
    /\ UNCHANGED <<store, offline, hasClient, muW, muR, token, disk,
                   nextInst, ops, lastInsert>>

\* Login: the POST to the session service.  A transport error or a status
\* other than 200/201 makes Login fail, and its caller return HTTP 401.
LoginDo(t) ==
    /\ Running /\ pc[t] = "login_do"
    /\ \/ Finish(t, [loc[t] EXCEPT !.result = "HTTPError", !.status = 401])
       \/ /\ \E h \in LoginHeaders :
               Set(t, [loc[t] EXCEPT !.hdrTok = h[1], !.hdrLoc = h[2]])
          /\ Goto(t, "login_tok1")
    /\ UNCHANGED <<store, offline, hasClient, muW, muR, token, disk, crashed,
                   nextInst, ops, expiries, lastInsert>>

\* c.token = resp.Header.Get("X-Auth-Token")
LoginSetToken(t) ==
    /\ Running /\ pc[t] = "login_tok1"
    /\ token' = loc[t].hdrTok
    /\ Goto(t, "login_chk")
    /\ UNCHANGED <<store, offline, hasClient, muW, muR, disk, loc, crashed,
                   nextInst, ops, expiries, lastInsert>>

AfterLogin(t) == IF loc[t].ret = "fetch" THEN "fetch_tok2" ELSE "post_tok2"

\* if c.token == "" { if Location != "" { ... } }; Login returns nil
LoginCheck(t) ==
    /\ Running /\ pc[t] = "login_chk"
    /\ \E fault \in {FALSE} \cup {RacyRead(t)} :
         IF fault
         THEN Panic(t) /\ UNCHANGED loc
         ELSE /\ IF token = <<>> /\ loc[t].hdrLoc # <<>>
                 THEN Goto(t, "login_tok2")
                 ELSE Goto(t, AfterLogin(t))
              /\ Set(t, [loc[t] EXCEPT !.hdrTok = <<>>, !.hdrLoc = <<>>])
              /\ UNCHANGED crashed
    /\ UNCHANGED <<store, offline, hasClient, muW, muR, token, disk,
                   nextInst, ops, expiries, lastInsert>>

\* c.token = "session-based"
LoginSessionBased(t) ==
    /\ Running /\ pc[t] = "login_tok2"
    /\ token' = SessionBased
    /\ Goto(t, AfterLogin(t))
    /\ UNCHANGED <<store, offline, hasClient, muW, muR, disk, loc, crashed,
                   nextInst, ops, expiries, lastInsert>>

\* Logout() is called on the client
LogoutStart(t) ==
    /\ Running /\ pc[t] = "idle" /\ ops < MaxOps /\ hasClient
    /\ Set(t, [Idle EXCEPT !.op = "Logout"])
    /\ Goto(t, "logout_tok")
    /\ ops' = ops + 1
    /\ UNCHANGED <<store, offline, hasClient, muW, muR, token, disk, crashed,
                   nextInst, expiries, lastInsert>>

\* c.token = ""
LogoutClear(t) ==
    /\ Running /\ pc[t] = "logout_tok"
    /\ token' = <<>>
    /\ Finish(t, [loc[t] EXCEPT !.result = "ok"])
    /\ UNCHANGED <<store, offline, hasClient, muW, muR, disk, crashed,
                   nextInst, ops, expiries, lastInsert>>

\* ------------------------------------------------------------------
\* ResourceCache.Get, after Fetch has returned the body
\* ------------------------------------------------------------------

\* a Get that caches an empty placeholder when the body does not parse
GetParseStoringPlaceholder(t) ==
    /\ Running /\ pc[t] = "get_parse"
    /\ LET r == Parse(loc[t].path, loc[t].data, nextInst)
       IN IF r.err # ""
          THEN /\ Finish(t, [loc[t] EXCEPT !.result = r.err])
               /\ store' = MapPut(store, loc[t].path, NoResource)
               /\ UNCHANGED nextInst
          ELSE /\ Goto(t, "get_wlock")
               /\ Set(t, [loc[t] EXCEPT !.res = r.res])
               /\ nextInst' = nextInst + 1
               /\ UNCHANGED store
    /\ UNCHANGED <<offline, hasClient, muW, muR, token, disk, crashed,
                   ops, expiries, lastInsert>>

\* c.parser.Parse(path, data) returns
GetParse(t) ==
    /\ Running /\ pc[t] = "get_parse"
    /\ LET r == Parse(loc[t].path, loc[t].data, nextInst)
       IN IF r.err # ""
          THEN Finish(t, [loc[t] EXCEPT !.result = r.err]) /\ UNCHANGED nextInst
          ELSE /\ Goto(t, "get_wlock")
               /\ Set(t, [loc[t] EXCEPT !.res = r.res])
               /\ nextInst' = nextInst + 1
    /\ UNCHANGED <<store, offline, hasClient, muW, muR, token, disk, crashed,
                   ops, expiries, lastInsert>>

\* c.mu.Lock()
GetWLock(t) ==
    /\ Running /\ pc[t] = "get_wlock" /\ CanLock
    /\ muW' = t
    /\ Goto(t, "get_store")
    /\ UNCHANGED <<store, offline, hasClient, muR, token, disk, loc, crashed,
                   nextInst, ops, expiries, lastInsert>>

\* an insert that keeps the entry another fetcher has put there
StoreIfAbsent(st, path, resource) ==
    IF path \in DOMAIN st THEN st ELSE MapPut(st, path, resource)

\* c.store[path] = resource
StoreAssign(st, path, resource) == MapPut(st, path, resource)

\* c.store[path] = resource; c.mu.Unlock(); return resource, nil
GetStore(t) ==
    /\ Running /\ pc[t] = "get_store"
    /\ store' = StoreAssign(store, loc[t].path, loc[t].res)
    /\ lastInsert' = MapPut(lastInsert, loc[t].path, loc[t].res.Inst)
    /\ muW' = "none"
    /\ Finish(t, [loc[t] EXCEPT !.wrote = TRUE, !.result = "ok"])
    /\ UNCHANGED <<offline, hasClient, muR, token, disk, crashed, nextInst, ops, expiries>>

\* the caller has the result and is free to make its next call
Return(t) ==
    /\ Running /\ pc[t] = "done"
    /\ Goto(t, "idle")
    /\ Set(t, Idle)
    /\ UNCHANGED <<store, offline, hasClient, muW, muR, token, disk, crashed,
                   nextInst, ops, expiries, lastInsert>>

\* ------------------------------------------------------------------
\* ResourceCache.Invalidate, Clear, SetOffline, Load
\* ------------------------------------------------------------------

\* Invalidate(path): path = normalizePath(path); c.mu.Lock()
InvalidateLock(t) ==
    /\ Running /\ pc[t] = "idle" /\ ops < MaxOps /\ CanLock
    /\ \E p \in CachePaths :
         Set(t, [Idle EXCEPT !.op = "Invalidate", !.path = normalizePath(p)])
    /\ muW' = t
    /\ Goto(t, "inv_del")
    /\ ops' = ops + 1
    /\ UNCHANGED <<store, offline, hasClient, muR, token, disk, crashed,
                   nextInst, expiries, lastInsert>>

\* delete(c.store, path); the deferred c.mu.Unlock()
InvalidateDelete(t) ==
    /\ Running /\ pc[t] = "inv_del"
    /\ store' = MapRemove(store, loc[t].path)
    /\ lastInsert' = MapRemove(lastInsert, loc[t].path)
    /\ muW' = "none"
    /\ Finish(t, [loc[t] EXCEPT !.result = "ok"])
    /\ UNCHANGED <<offline, hasClient, muR, token, disk, crashed, nextInst, ops, expiries>>

\* Clear(): c.mu.Lock()
ClearLock(t) ==
    /\ Running /\ pc[t] = "idle" /\ ops < MaxOps /\ CanLock
    /\ Set(t, [Idle EXCEPT !.op = "Clear"])
    /\ muW' = t
    /\ Goto(t, "clr_do")
    /\ ops' = ops + 1
    /\ UNCHANGED <<store, offline, hasClient, muR, token, disk, crashed,
                   nextInst, expiries, lastInsert>>

\* c.store = make(map[string]*Resource); the deferred c.mu.Unlock()
ClearDo(t) ==
    /\ Running /\ pc[t] = "clr_do"
    /\ store' = <<>>
    /\ lastInsert' = <<>>
    /\ muW' = "none"
    /\ Finish(t, [loc[t] EXCEPT !.result = "ok"])
    /\ UNCHANGED <<offline, hasClient, muR, token, disk, crashed, nextInst, ops, expiries>>

\* SetOffline(offline): c.offline = offline, without the lock
SetOffline(t) ==
    /\ Running /\ pc[t] = "idle" /\ ops < MaxOps
    /\ \E b \in BOOLEAN : offline' = b
    /\ Finish(t, [Idle EXCEPT !.op = "SetOffline", !.result = "ok"])
    /\ ops' = ops + 1
    /\ UNCHANGED <<store, hasClient, muW, muR, token, disk, crashed,
                   nextInst, expiries, lastInsert>>

\* Load(): os.ReadFile and json.Unmarshal.  No file: nil.  Not a JSON map of
\* entries: the error.  Otherwise on to c.mu.Lock().
LoadRead(t) ==
    /\ Running /\ pc[t] = "idle" /\ ops < MaxOps
    /\ IF ~disk.exists
       THEN Finish(t, [Idle EXCEPT !.op = "Load", !.result = "ok"])
       ELSE IF ~disk.valid
       THEN Finish(t, [Idle EXCEPT !.op = "Load", !.result = "LoadError"])
       ELSE Goto(t, "load_lock")
            /\ Set(t, [Idle EXCEPT !.op = "Load", !.rem = disk.entries])
    /\ ops' = ops + 1
    /\ UNCHANGED <<store, offline, hasClient, muW, muR, token, disk, crashed,
                   nextInst, expiries, lastInsert>>

\* c.mu.Lock(); defer c.mu.Unlock()
LoadLock(t) ==
    /\ Running /\ pc[t] = "load_lock" /\ CanLock
    /\ muW' = t
    /\ Goto(t, "load_loop")
    /\ UNCHANGED <<store, offline, hasClient, muR, token, disk, loc, crashed,
                   nextInst, ops, expiries, lastInsert>>

\* one turn of `for _, entry := range entries` (a Go map: any order) up to
\* the call of parser.Parse: an entry whose data does not decode is skipped;
\* after the last entry Load returns nil and the lock is released.
LoadNext(t) ==
    /\ Running /\ pc[t] = "load_loop"
    /\ IF loc[t].rem = {}
       THEN muW' = "none" /\ Finish(t, [loc[t] EXCEPT !.result = "ok"])
       ELSE \E e \in loc[t].rem :
              /\ muW' = muW
              /\ IF e.b64ok
                 THEN Goto(t, "load_parse")
                      /\ Set(t, [loc[t] EXCEPT !.rem = @ \ {e}, !.cur = e])
                 ELSE Goto(t, "load_loop")
                      /\ Set(t, [loc[t] EXCEPT !.rem = @ \ {e}])
    /\ UNCHANGED <<store, offline, hasClient, muR, token, disk, crashed,
                   nextInst, ops, expiries, lastInsert>>

\* a Load that gives up at the first entry that does not parse
LoadParseOrFail(t) ==
    /\ Running /\ pc[t] = "load_parse"
    /\ LET e == loc[t].cur
           r == Parse(e.Path, e.json, nextInst)
       IN IF r.err # ""
          THEN /\ muW' = "none"
               /\ Finish(t, [loc[t] EXCEPT !.result = "LoadError"])
               /\ UNCHANGED <<store, nextInst, lastInsert>>
          ELSE /\ store' = StoreAssign(store, e.Path, r.res)
               /\ lastInsert' = MapPut(lastInsert, e.Path, r.res.Inst)
               /\ nextInst' = nextInst + 1
               /\ muW' = muW
               /\ Goto(t, "load_loop")
               /\ Set(t, [loc[t] EXCEPT !.cur = NoEntry])
    /\ UNCHANGED <<offline, hasClient, muR, token, disk, crashed, ops, expiries>>

\* parser.Parse(entry.Path, rawJSON) returns: an unparseable entry is
\* skipped, a Resource is stored under entry.Path
LoadParse(t) ==
    /\ Running /\ pc[t] = "load_parse"
    /\ LET e == loc[t].cur
           r == Parse(e.Path, e.json, nextInst)
       IN IF r.err # ""
          THEN UNCHANGED <<store, nextInst, expiries, lastInsert>>
          ELSE /\ store' = StoreAssign(store, e.Path, r.res)
               /\ lastInsert' = MapPut(lastInsert, e.Path, r.res.Inst)
               /\ nextInst' = nextInst + 1
    /\ Goto(t, "load_loop")
    /\ Set(t, [loc[t] EXCEPT !.cur = NoEntry])
    /\ UNCHANGED <<offline, hasClient, muW, muR, token, disk, crashed, ops, expiries>>

\* ------------------------------------------------------------------
\* Post: vfs.Post -> ResourceCache.Post -> Client.Post
\* ------------------------------------------------------------------

\* the action targets callers post to: one that is cached, one that is not
PostPaths == {RedfishRoot, PathY}

PostStatuses == {200} \cup ErrorStatuses

\* Client.Post(path, body) is entered: the request is built
ClientPost(t) ==
    /\ Running /\ pc[t] = "idle" /\ ops < MaxOps /\ hasClient
    /\ \E p \in PostPaths : Set(t, [Idle EXCEPT !.op = "Post", !.path = p])
    /\ Goto(t, "post_tok1")
    /\ ops' = ops + 1
    /\ UNCHANGED <<store, offline, hasClient, muW, muR, token, disk, crashed,
                   nextInst, expiries, lastInsert>>

\* ResourceCache.Post: passes through to Client.Post, no cache update
CachePost(t) == ClientPost(t)

\* a Post that drops the posted path from the cache
VfsPostInvalidating(t) ==
    /\ Running /\ pc[t] = "idle" /\ ops < MaxOps /\ hasClient
    /\ \E p \in PostPaths :
         /\ Set(t, [Idle EXCEPT !.op = "Post", !.path = p])
         /\ store' = MapRemove(store, normalizePath(p))
    /\ Goto(t, "post_tok1")
    /\ ops' = ops + 1
    /\ UNCHANGED <<offline, hasClient, muW, muR, token, disk, crashed,
                   nextInst, expiries, lastInsert>>

\* vfs.Post: return v.cache.Post(path, body)
VfsPost(t) == CachePost(t)

PostOutcomes(t) ==
    {Outcome("neterr", 0, JBad)}
    \cup {Outcome("status", st, JBad) : st \in AnswerStatuses(PostStatuses)}
    \cup (IF RacyRead(t) THEN {Outcome("fault", 0, JBad)} ELSE {})

\* one POST of Client.Post, after c.token was read into the request: 401 on
\* the first attempt calls Login; otherwise the status is the result
PostRespond(t, first) ==
    \E o \in PostOutcomes(t) :
      LET l == [loc[t] EXCEPT !.posts = @ + 1, !.status = o.st]
      IN /\ Expire(o)
         /\ CASE o.k = "fault" -> Panic(t) /\ UNCHANGED loc
           [] o.k = "neterr" ->
                Finish(t, [l EXCEPT !.result = "NetworkError"]) /\ UNCHANGED crashed
           [] o.st = 401 /\ first ->
                Goto(t, "login_do")
                /\ Set(t, [l EXCEPT !.logins = @ + 1, !.ret = "post"])
                /\ UNCHANGED crashed
           [] o.st = 200 ->
                Finish(t, [l EXCEPT !.result = "ok"]) /\ UNCHANGED crashed
           [] OTHER ->
                Finish(t, [l EXCEPT !.result = "HTTPError"]) /\ UNCHANGED crashed

PostSend1(t) ==
    /\ Running /\ pc[t] = "post_tok1"
    /\ PostRespond(t, TRUE)
    /\ UNCHANGED <<store, offline, hasClient, muW, muR, token, disk,
                   nextInst, ops, lastInsert>>

PostSend2(t) ==
    /\ Running /\ pc[t] = "post_tok2"
    /\ PostRespond(t, FALSE)
    /\ UNCHANGED <<store, offline, hasClient, muW, muR, token, disk,
                   nextInst, ops, lastInsert>>

\* ------------------------------------------------------------------
\* The cache and the client under concurrent callers
\* ------------------------------------------------------------------

Next ==
    /\ \E t \in Threads :
        \/ GetStart(t) \/ GetRLock(t) \/ GetCheck(t) \/ GetMiss(t)
        \/ FetchGet1(t) \/ FetchGet2(t)
        \/ LoginDo(t) \/ LoginSetToken(t) \/ LoginCheck(t) \/ LoginSessionBased(t)
        \/ GetParse(t) \/ GetWLock(t) \/ GetStore(t)
        \/ InvalidateLock(t) \/ InvalidateDelete(t)
        \/ ClearLock(t) \/ ClearDo(t)
        \/ SetOffline(t)
        \/ LoadRead(t) \/ LoadLock(t) \/ LoadNext(t) \/ LoadParse(t)
        \/ VfsPost(t) \/ PostSend1(t) \/ PostSend2(t)
        \/ Return(t)
    /\ UNCHANGED <<rv, pv, uv, sv, cv, hv, av, nv, bv>>

Spec == Init /\ [][Next]_vars

\* The client under concurrent callers of Fetch, Post and Logout

NextClient ==
    /\ \E t \in Threads :
        \/ FetchCall(t) \/ FetchGet1(t) \/ FetchGet2(t)
        \/ LoginDo(t) \/ LoginSetToken(t) \/ LoginCheck(t) \/ LoginSessionBased(t)
        \/ LogoutStart(t) \/ LogoutClear(t)
        \/ ClientPost(t) \/ PostSend1(t) \/ PostSend2(t)
        \/ Return(t)
    /\ UNCHANGED <<rv, pv, uv, sv, cv, hv, av, nv, bv>>

SpecClient == InitClient /\ [][NextClient]_vars

\* ------------------------------------------------------------------
\* ResourceCache.Save (vfs.Sync) beside Load, Clear and Invalidate
\* ------------------------------------------------------------------

\* c.mu.RLock(); defer c.mu.RUnlock(): Save takes the lock for reading
SaveRLock(t) ==
    /\ Running /\ pc[t] = "idle" /\ ops < MaxOps /\ CanRLock
    /\ Set(t, [Idle EXCEPT !.op = "Save"])
    /\ muR' = muR \cup {t}
    /\ Goto(t, "save_write")
    /\ ops' = ops + 1
    /\ UNCHANGED <<store, offline, hasClient, muW, token, disk, crashed,
                   nextInst, expiries, lastInsert>>

\* the entries of c.store, MarshalIndent, os.WriteFile(c.file, data, 0644) and
\* the deferred RUnlock.  WriteFile truncates the file and writes into it:
\* when another Save is writing the same file the bytes of the two may mix,
\* and the file may end up as either content or as no JSON at all.
SaveWrite(t) ==
    /\ Running /\ pc[t] = "save_write"
    /\ LET written == DiskFile({CacheEntry(store[q].Path, TRUE, store[q].RawJSON) :
                                  q \in DOMAIN store})
           mixed == [exists |-> TRUE, valid |-> FALSE, entries |-> {}]
       IN disk' \in {written} \cup
                    (IF \E u \in Threads \ {t} : pc[u] = "save_write"
                     THEN {mixed} ELSE {})
    /\ muR' = muR \ {t}
    /\ Finish(t, [loc[t] EXCEPT !.result = "ok"])
    /\ UNCHANGED <<store, offline, hasClient, muW, token, crashed, nextInst, ops,
                   expiries, lastInsert>>

NextSave ==
    /\ \E t \in Threads :
        \/ SaveRLock(t) \/ SaveWrite(t)
        \/ InvalidateLock(t) \/ InvalidateDelete(t)
        \/ ClearLock(t) \/ ClearDo(t)
        \/ LoadRead(t) \/ LoadLock(t) \/ LoadNext(t) \/ LoadParse(t)
        \/ Return(t)
    /\ UNCHANGED <<rv, pv, uv, sv, cv, hv, av, nv, bv>>

SpecSave == Init /\ [][NextSave]_vars

\* ------------------------------------------------------------------
\* The cache over a file that Save has not written
\* ------------------------------------------------------------------

\* a cache file whose entries carry paths as some other writer left them:
\* with a trailing slash, and without the leading one
DiskForeign ==
    DiskFile({CacheEntry(RedfishRoot \o <<"/">>, TRUE, BodyRoot),
              CacheEntry(<<"redfish", "/", "v1">>, TRUE, BodyRoot)})

\* NewResourceCache or NewOfflineCache over such a file, or over the mixed one
InitLoad ==
    /\ disk \in {DiskMixed, DiskForeign}
    /\ \/ hasClient = TRUE /\ offline = FALSE /\ token = <<"tokA">>
       \/ hasClient = FALSE /\ offline = TRUE /\ token = <<>>
    /\ LET l == LoadEntries(disk.entries, <<>>, 1)
       IN store = l.store /\ nextInst = l.next /\ lastInsert = InstsOf(l.store)
    /\ InitRest
    /\ expiries = CacheExpiries
    /\ rv = RvIdle
    /\ pv = NoParse
    /\ uv = NoNormalize

SpecLoad == InitLoad /\ [][Next]_vars

\* ------------------------------------------------------------------
\* Get beside Invalidate and Clear, with the history of what they overtook
\* ------------------------------------------------------------------

\* the Gets in progress that the Invalidate or Clear of goroutine t covers
Covered(t) ==
    {u \in Threads : /\ loc[u].op = "Get" /\ pc[u] # "done"
                     /\ (loc[t].op = "Clear" \/ loc[u].path = loc[t].path)}

\* the Gets that have the response of Client.Fetch in hand
HasResponse(u) == pc[u] \in {"get_parse", "get_wlock", "get_store"}

\* the history kept beside a step of goroutine t: the deferred Unlock of
\* Invalidate or Clear, the start of a Get, the Parse of a response that was
\* overtaken, the return to the caller
Overtaken(t) ==
    hv' =
      IF pc[t] \in {"inv_del", "clr_do"} /\ pc'[t] = "done"
      THEN LET paths == IF loc[t].op = "Clear"
                        THEN {normalizePath(q) : q \in CachePaths}
                        ELSE {loc[t].path}
               early == {u \in Covered(t) : HasResponse(u)}
           IN [ever |-> hv.ever \cup paths,
               pending |-> hv.pending \cup paths,
               first |-> hv.first \ Covered(t),
               after |-> hv.after \ Covered(t),
               early |-> hv.early \cup early,
               stale |-> hv.stale \cup
                         {loc[u].res.Inst : u \in {x \in early : pc[x] # "get_parse"}}]
      ELSE IF pc[t] = "idle" /\ loc'[t].op = "Get"
      THEN [hv EXCEPT !.pending = @ \ {loc'[t].path},
                      !.first = IF loc'[t].path \in hv.pending THEN @ \cup {t} ELSE @,
                      !.after = IF loc'[t].path \in hv.ever THEN @ \cup {t} ELSE @]
      ELSE IF pc[t] = "get_parse" /\ pc'[t] = "get_wlock" /\ t \in hv.early
      THEN [hv EXCEPT !.stale = @ \cup {loc'[t].res.Inst}]
      ELSE IF pc[t] = "done" /\ pc'[t] = "idle"
      THEN [hv EXCEPT !.first = @ \ {t}, !.after = @ \ {t}, !.early = @ \ {t}]
      ELSE hv

NextRefresh ==
    /\ \E t \in Threads :
        /\ \/ GetStart(t) \/ GetRLock(t) \/ GetCheck(t) \/ GetMiss(t)
           \/ FetchGet1(t) \/ FetchGet2(t)
           \/ LoginDo(t) \/ LoginSetToken(t) \/ LoginCheck(t) \/ LoginSessionBased(t)
           \/ GetParse(t) \/ GetWLock(t) \/ GetStore(t)
           \/ InvalidateLock(t) \/ InvalidateDelete(t)
           \/ ClearLock(t) \/ ClearDo(t)
           \/ Return(t)
        /\ Overtaken(t)
    /\ UNCHANGED <<rv, pv, uv, sv, cv, av, nv, bv>>

SpecRefresh == Init /\ [][NextRefresh]_vars

\* ------------------------------------------------------------------
\* Properties of ResourceCache.Get
\* ------------------------------------------------------------------

\* a goroutine is inside Client.Fetch (Login included) or inside Parser.Parse
InClientFetch(t) ==
    pc[t] \in {"fetch_tok1", "fetch_tok2", "login_do", "login_tok1",
               "login_chk", "login_tok2"}

InParserParse(t) == pc[t] \in {"get_parse", "load_parse"}

GetReturned(t) == loc[t].op = "Get" /\ pc[t] = "done"

\* C1: a Get calls Client.Fetch exactly when its lookup finds the path absent
\* from the map (and the cache is not offline): the lookup misses iff the path
\* is not a key, a miss makes one Fetch call and a hit makes none, a
\* successful miss leaves the fetched Resource under the path, and Invalidate
\* removes the key so that the next lookup misses again.
C1_GetFetchesExactlyWhenNotCached ==
    /\ [](\A t \in Threads :
            loc[t].op = "Get" =>
              /\ loc[t].fetches =
                   (IF loc[t].missed /\ ~loc[t].sawOffline /\ pc[t] # "get_offline"
                    THEN 1 ELSE 0)
              /\ loc[t].hit => ~loc[t].missed /\ ~loc[t].wrote /\ loc[t].gets = 0
              /\ (GetReturned(t) /\ loc[t].missed /\ loc[t].result = "ok")
                    => loc[t].wrote)
    /\ [][\A t \in Threads :
            /\ (pc[t] = "get_check" /\ pc'[t] # "get_check")
                 => /\ loc'[t].hit = (loc[t].path \in DOMAIN store)
                    /\ loc'[t].missed = (loc[t].path \notin DOMAIN store)
            /\ (pc[t] = "get_store" /\ pc'[t] = "done")
                 => /\ loc[t].path \in DOMAIN store'
                    /\ store'[loc[t].path] = loc[t].res
            /\ (pc[t] = "inv_del" /\ pc'[t] = "done")
                 => loc[t].path \notin DOMAIN store']_vars

\* root was loaded from disk, so a Get that missed it ran after an Invalidate
\* (or Clear), fetched once and cached the result again
C1_Witness ==
    /\ disk = DiskMixed
    /\ \E t \in Threads :
         /\ GetReturned(t) /\ loc[t].path = RedfishRoot
         /\ loc[t].missed /\ loc[t].fetches = 1 /\ loc[t].wrote
         /\ RedfishRoot \in DOMAIN store

\* C2: no goroutine holds the cache lock (read or write) while it is inside
\* Client.Fetch or Parser.Parse, in Get and in Load alike.
C2_NoLockAcrossFetchOrParse ==
    \A t \in Threads : (InClientFetch(t) \/ InParserParse(t)) => ~Holds(t)

\* C3: whatever the interleaving of Gets, the map holds at most one Resource
\* per path and it is the one inserted last; a Resource inserted earlier for
\* that path is no longer in the map.
C3_LastInsertWins ==
    /\ \A p \in DOMAIN lastInsert :
         p \in DOMAIN store => store[p].Inst = lastInsert[p]
    /\ \A t \in Threads :
         (GetReturned(t) /\ loc[t].wrote /\ loc[t].path \in DOMAIN lastInsert
            /\ lastInsert[loc[t].path] # loc[t].res.Inst)
           => \A q \in DOMAIN store : store[q].Inst # loc[t].res.Inst

\* two Gets of root both fetched and both inserted; the map has the later one
C3_Witness ==
    /\ \A t \in Threads :
         GetReturned(t) /\ loc[t].wrote /\ loc[t].path = RedfishRoot
    /\ \E t, u \in Threads : loc[t].res.Inst # loc[u].res.Inst
    /\ RedfishRoot \in DOMAIN store

\* C4: holding the write lock, Get inserts only if the path is still absent;
\* an entry another fetcher inserted in the meantime is left in place.
C4_InsertOnlyIfStillAbsent ==
    [][\A t \in Threads :
         (pc[t] = "get_store" /\ pc'[t] = "done" /\ loc[t].path \in DOMAIN store)
           => store'[loc[t].path] = store[loc[t].path]]_vars

\* C5: a Get that finds the cache offline after a miss returns NotCached
\* without having entered the client, and a Get of a cached path returns the
\* cached Resource, offline or not.
C5_OfflineMissIsNotCached ==
    /\ [](\A t \in Threads :
            loc[t].op = "Get" =>
              /\ loc[t].sawOffline
                   => /\ loc[t].fetches = 0 /\ loc[t].gets = 0 /\ loc[t].logins = 0
                      /\ pc[t] = "done" /\ loc[t].result = "NotCached"
                      /\ loc[t].res = NoResource
              /\ loc[t].hit => loc[t].result = "ok" /\ loc[t].res # NoResource)
    /\ [][\A t \in Threads :
            (pc[t] = "get_check" /\ pc'[t] # "get_check"
               /\ loc[t].path \in DOMAIN store)
              => /\ pc'[t] = "done"
                 /\ loc'[t].res = store[loc[t].path]]_vars

\* offline: one Get missed and got NotCached, the other got the cached root
C5_Witness ==
    /\ offline
    /\ \E t, u \in Threads :
         /\ GetReturned(t) /\ loc[t].sawOffline /\ loc[t].result = "NotCached"
         /\ GetReturned(u) /\ loc[u].hit /\ loc[u].res.Path = RedfishRoot

\* C6: a Get that returns an error (network, HTTP, parse, NotCached) has not
\* written the map: the step that returns the error leaves the map as it was,
\* and no earlier step of that Get wrote it.
C6_FailedGetLeavesMapUnchanged ==
    /\ [](\A t \in Threads :
            (GetReturned(t) /\ loc[t].result # "ok") => ~loc[t].wrote)
    /\ [][\A t \in Threads :
            (loc[t].op = "Get" /\ pc[t] \notin {"get_store", "done"}
               /\ pc'[t] # pc[t])
              => store' = store]_vars

\* a Get whose fetched body did not parse, and the map without that path
C6_Witness ==
    \E t \in Threads :
      /\ GetReturned(t) /\ loc[t].result = "ParseError" /\ loc[t].fetches = 1
      /\ loc[t].path \notin DOMAIN store

\* ------------------------------------------------------------------
\* Properties of the client and of Post
\* ------------------------------------------------------------------

FetchReturned(t) == loc[t].op \in {"Fetch", "Get"} /\ pc[t] = "done"

C8_TokenAccessSerialized ==
    \A t \in Threads : \A u \in Threads \ {t} :
      AtTokenWrite(t) => ~(AtTokenWrite(u) \/ AtTokenRead(u))

BodySystems ==
    JO(<< <<ODataIDKey, JS(SystemsPath)>>,
          << <<"Members">>, JA(<<LinkTo(Sys1Path)>>) >> >>)

BodySys1 ==
    JO(<< <<ODataIDKey, JS(Sys1Path)>>,
          << <<"Status">>, JO(<< << <<"Health">>, JS(<<"OK">>) >> >>) >>,
          << <<"BootOrder">>, JA(<<JS(<<"Pxe">>), JS(<<"Hdd">>)>>) >>,
          << <<"Links">>, JO(<< << <<"Chassis">>, JA(<<LinkTo(Chassis1Path)>>) >> >>) >>,
          << <<"Assembly", "Uri">>, JS(Chassis1Path) >> >>)

BodyChassis1 ==
    JO(<< <<ODataIDKey, JS(Chassis1Path)>>,
          << <<"Manufacturer">>, JS(<<"Acme">>) >>,
          << <<"Links">>,
             JO(<< << <<"ComputerSystems">>, JA(<<LinkTo(Sys1Path)>>) >> >>) >> >>)

\* the resources the server has; it answers 404 for every other path
WorldPaths == {RedfishRoot, SystemsPath, Sys1Path, Chassis1Path}

World(p) ==
    CASE p = RedfishRoot -> BodyRoot
      [] p = SystemsPath -> BodySystems
      [] p = Sys1Path -> BodySys1
      [] OTHER -> BodyChassis1

\* a cache file holding every resource of the server
DiskWorld == DiskFile({CacheEntry(q, TRUE, World(q)) : q \in WorldPaths})

\* strings.Split(s, "/")
RECURSIVE Split(_)
Split(s) ==
    IF \A k \in 1..Len(s) : s[k] # "/" THEN <<s>>
    ELSE LET k == CHOOSE j \in 1..Len(s) :
                    s[j] = "/" /\ \A h \in 1..(j - 1) : s[h] # "/"
         IN <<SubSeq(s, 1, k - 1)>> \o Split(SubSeq(s, k + 1, Len(s)))

IsSegment(x) == x # <<>>

\* segments that keep the empty strings of Split
SegmentsWithEmpty(targetPath) == Split(targetPath)

\* the segments of resolveRelative: Split with the empty strings filtered out
Segments(targetPath) == SelectSeq(Split(targetPath), IsSegment)

\* strings.Index(s, "["): the 1-based position of the first "[", or 0
IndexOfBracket(s) ==
    IF \A k \in 1..Len(s) : s[k] # "[" THEN 0
    ELSE CHOOSE j \in 1..Len(s) : s[j] = "[" /\ \A h \in 1..(j - 1) : s[h] # "["

IsDigit(c) == \E d \in 1..Len(Digits) : Digits[d] = c

DigitValue(c) == (CHOOSE d \in 1..Len(Digits) : Digits[d] = c) - 1

\* the value of the longest run of digits at the start of s, after acc
RECURSIVE ScanDigits(_, _)
ScanDigits(s, acc) ==
    IF s # <<>> /\ IsDigit(s[1]) THEN ScanDigits(Tail(s), acc * 10 + DigitValue(s[1]))
    ELSE acc

\* index := 0; fmt.Sscanf(indexStr, "%d", &index): an optional sign and the
\* digits that follow it; index stays 0 when there is no digit to read
Sscanf(indexStr) ==
    LET signed == indexStr # <<>> /\ indexStr[1] \in {"-", "+"}
        rest == IF signed THEN Tail(indexStr) ELSE indexStr
    IN IF rest = <<>> \/ ~IsDigit(rest[1]) THEN 0
       ELSE IF signed /\ indexStr[1] = "-" THEN 0 - ScanDigits(rest, 0)
       ELSE ScanDigits(rest, 0)

Found(prop) == [err |-> "", errPath |-> <<>>, prop |-> prop, panic |-> FALSE]

NotFound(err, path) == [err |-> err, errPath |-> path, prop |-> NoProp, panic |-> FALSE]

\* prop.Elements[index] with index < 0: index out of range
IndexPanic == [err |-> "", errPath |-> <<>>, prop |-> NoProp, panic |-> TRUE]

\* navigatePropertySegment(properties, segment)
navigatePropertySegment(properties, segment) ==
    LET idx == IndexOfBracket(segment)
    IN IF idx # 0
       THEN IF ~HasSuffix(segment, <<"]">>) THEN NotFound("NotFound", segment)
            ELSE LET propName == SubSeq(segment, 1, idx - 1)
                     indexStr == SubSeq(segment, idx + 1, Len(segment) - 1)
                     index == Sscanf(indexStr)
                 IN IF propName \notin DOMAIN properties
                    THEN NotFound("NotFound", propName)
                    ELSE IF properties[propName].Type # "PropertyArray"
                    THEN NotFound("NotAnArray", propName)
                    ELSE IF index >= Len(properties[propName].Elements)
                    THEN NotFound("IndexOutOfBounds", indexStr)
                    ELSE IF index < 0 THEN IndexPanic
                    ELSE Found(properties[propName].Elements[index + 1])
       ELSE IF segment \notin DOMAIN properties THEN NotFound("NotFound", segment)
            ELSE Found(properties[segment])

\* v.cache.Get(path) run to completion with no other caller of the cache:
\* normalizePath, the lookup, the offline check, Client.Fetch against the
\* server above, Parse, and the insert.
CacheGet(path) ==
    LET q == normalizePath(path)
        miss == [kind |-> "err", err |-> "", res |-> NoResource,
                 store |-> store, next |-> nextInst]
    IN IF q \in DOMAIN store THEN [miss EXCEPT !.kind = "ok", !.res = store[q]]
       ELSE IF offline THEN [miss EXCEPT !.err = "NotCached"]
       ELSE IF q = <<>> \/ ~hasClient THEN [miss EXCEPT !.kind = "panic"]
       ELSE IF q \notin WorldPaths THEN [miss EXCEPT !.err = "HTTPError"]
       ELSE LET r == Parse(q, World(q), nextInst)
            IN IF r.err # "" THEN [miss EXCEPT !.err = r.err]
               ELSE [kind |-> "ok", err |-> "", res |-> r.res,
                     store |-> StoreAssign(store, q, r.res), next |-> nextInst + 1]

\* the effect of one v.cache.Get(path) on the cache, with the call logged
Fetched(g, path) ==
    /\ store' = g.store
    /\ nextInst' = g.next
    /\ lastInsert' = InstsOf(g.store)
    /\ crashed' = (g.kind = "panic")

ResolveIdle ==
    UNCHANGED <<offline, hasClient, muW, muR, token, disk, pc, loc, ops, expiries, pv, uv,
               sv, cv, hv, av, nv, bv>>

\* the base paths and target paths the frontends resolve
ResolveBases == {<<>>, RedfishRoot, Sys1Path}

ResolveTargets ==
    {<<>>,
     <<"Systems", "/", "1">>,
     <<"Status", "/", "Health">>,
     <<"Status", "/", "Health", "/">>,
     <<"Links", "/", "Chassis", "[", "0", "]">>,
     <<"Links", "/", "Chassis", "[", "0", "]", "/", "Manufacturer">>,
     <<"Assembly", "Uri">>,
     <<"Assembly", "Uri", "/">>,
     <<"Assembly", "Uri", "/", "Links", "/", "ComputerSystems", "[", "0", "]", "/", "Status">>,
     <<"BootOrder", "[", "1", "]">>,
     <<"BootOrder", "[", "2", "]">>,
     <<"BootOrder", "[", "x", "]">>,
     <<"BootOrder", "[", "-", "1", "]">>,
     <<"BootOrder", "[", "0">>,
     <<"Status", "[", "0", "]">>,
     <<"Systems", "[", "0", "]">>,
     <<"Nope">>,
     Sys1Path,
     Sys1Path \o <<"/">>,
     RedfishRoot,
     RedfishRoot \o <<"/">>,
     <<"/">>,
     <<"/", "other">>}

\* ResolveTarget(basePath, targetPath): the path to resolve
Composed(basePath, targetPath) ==
    IF targetPath = <<>> THEN basePath
    ELSE IF HasPrefix(targetPath, <<"/">>) THEN targetPath
    ELSE basePath \o <<"/">> \o targetPath

\* the locals of ResolveTarget(b, tg) at the head of resolveAbsolute, up to
\* the first Cache.Get
resolveAbsolute(b, tg) ==
    LET path == Composed(b, tg)
        call == [RvIdle EXCEPT !.base = b, !.target = tg, !.last = rv.last]
    IN IF ~HasPrefix(path, RedfishRoot)
       THEN [call EXCEPT !.pc = "done", !.out = Failure("InvalidAbsolutePath", path)]
       ELSE IF path = RedfishRoot
       THEN [call EXCEPT !.pc = "root", !.currentPath = RedfishRoot]
       ELSE [call EXCEPT !.pc = "loop", !.i = 1, !.currentPath = RedfishRoot,
               !.segments = Segments(TrimPrefix(path, RedfishRoot \o <<"/">>))]

\* ResolveTarget is called
ResolveTarget ==
    /\ Running /\ rv.pc = "idle"
    /\ \E b \in ResolveBases, tg \in ResolveTargets : rv' = resolveAbsolute(b, tg)
    /\ UNCHANGED <<store, nextInst, lastInsert, crashed>>
    /\ ResolveIdle

\* what a Cache.Get that the resolver cannot go on from leaves in rv
GetFailed(g, path) ==
    [rv EXCEPT !.pc = IF g.kind = "panic" THEN "panicked" ELSE "done",
               !.out = Failure(g.err, path),
               !.gets = Append(@, path)]

\* resolveAbsolute for the root itself: Get(RedfishRoot), a Resource target
ResolveRoot ==
    /\ Running /\ rv.pc = "root"
    /\ LET g == CacheGet(RedfishRoot)
       IN /\ Fetched(g, RedfishRoot)
          /\ rv' = IF g.kind # "ok" THEN GetFailed(g, RedfishRoot)
                   ELSE [rv EXCEPT !.pc = "done", !.gets = Append(@, RedfishRoot),
                           !.out = Target("TargetResource", g.res, NoProp, RedfishRoot)]
    /\ ResolveIdle

InLoop == rv.pc = "loop" /\ rv.i <= Len(rv.segments)

NeedsResource == rv.propsNil /\ rv.currentResource = NoResource

\* resource mode with no current resource: currentResource, err = Get(currentPath)
ResolveLoopGet ==
    /\ Running /\ InLoop /\ NeedsResource
    /\ LET g == CacheGet(rv.currentPath)
       IN /\ Fetched(g, rv.currentPath)
          /\ rv' = IF g.kind # "ok" THEN GetFailed(g, rv.currentPath)
                   ELSE [rv EXCEPT !.currentResource = g.res,
                                   !.gets = Append(@, rv.currentPath)]
    /\ ResolveIdle

\* a last segment that is returned as a plain property whatever its type
TailTargetPlain(prop, resource) == Target("TargetProperty", resource, prop, <<>>)

\* the last segment: a Link target carrying the link's path, or a Property target
TailTarget(prop, resource) ==
    IF prop.Type = "PropertyLink"
    THEN Target("TargetLink", resource, prop, prop.LinkTarget)
    ELSE Target("TargetProperty", resource, prop, <<>>)

\* a link that is stepped over with the resource at hand kept
FollowLinkInPlace(r, prop) ==
    [r EXCEPT !.currentPath = prop.LinkTarget, !.propsNil = TRUE,
              !.currentProps = <<>>, !.i = @ + 1]

\* a link that is followed with its segment left to be resolved again
FollowLinkKeepingSegment(r, prop) ==
    [r EXCEPT !.currentPath = prop.LinkTarget, !.currentResource = NoResource,
              !.propsNil = TRUE, !.currentProps = <<>>]

\* case PropertyLink with more segments: follow the link, back to resource mode
FollowLink(r, prop) ==
    [r EXCEPT !.currentPath = prop.LinkTarget, !.currentResource = NoResource,
              !.propsNil = TRUE, !.currentProps = <<>>, !.i = @ + 1]

\* one iteration of the loop of resolveRelative once the resource is at hand:
\* the child lookup in resource mode, else the property lookup, then either
\* the result for the last segment or the move into the property
ResolveSegment ==
    /\ Running /\ InLoop /\ ~NeedsResource
    /\ LET seg == rv.segments[rv.i]
           res == rv.currentResource
           props == IF rv.propsNil THEN res.Properties ELSE rv.currentProps
           nav == navigatePropertySegment(props, seg)
           prop == nav.prop
           inProps == [rv EXCEPT !.propsNil = FALSE, !.currentProps = props]
       IN /\ rv' =
               IF rv.propsNil /\ seg \in DOMAIN res.Children
               THEN [rv EXCEPT !.currentPath = res.Children[seg].Target,
                               !.currentResource = NoResource, !.i = @ + 1]
               ELSE IF nav.panic THEN [inProps EXCEPT !.pc = "panicked"]
               ELSE IF nav.err # ""
               THEN [inProps EXCEPT !.pc = "done", !.out = Failure(nav.err, nav.errPath)]
               ELSE IF rv.i = Len(rv.segments)
               THEN [inProps EXCEPT !.pc = "done", !.out = TailTarget(prop, res)]
               ELSE IF prop.Type = "PropertyLink" THEN FollowLink(inProps, prop)
               ELSE IF prop.Type = "PropertyObject"
               THEN [inProps EXCEPT !.currentProps = prop.Children, !.i = @ + 1]
               ELSE [inProps EXCEPT !.pc = "done", !.out = Failure("CannotNavigate", seg)]
          /\ crashed' = (~(rv.propsNil /\ seg \in DOMAIN res.Children) /\ nav.panic)
    /\ UNCHANGED <<store, nextInst, lastInsert>>
    /\ ResolveIdle

\* after the loop: the path ended on a resource, fetched now unless at hand
ResolveEnd ==
    /\ Running /\ rv.pc = "loop" /\ rv.i > Len(rv.segments)
    /\ IF rv.currentResource = NoResource
       THEN LET g == CacheGet(rv.currentPath)
            IN /\ Fetched(g, rv.currentPath)
               /\ rv' = IF g.kind # "ok" THEN GetFailed(g, rv.currentPath)
                        ELSE [rv EXCEPT !.pc = "done", !.currentResource = g.res,
                                !.gets = Append(@, rv.currentPath),
                                !.out = Target("TargetResource", g.res, NoProp,
                                               rv.currentPath)]
       ELSE /\ rv' = [rv EXCEPT !.pc = "done",
                        !.out = Target("TargetResource", rv.currentResource, NoProp,
                                       rv.currentPath)]
            /\ UNCHANGED <<store, nextInst, lastInsert, crashed>>
    /\ ResolveIdle

\* the caller has the Target or the error
ResolveReturn ==
    /\ Running /\ rv.pc = "done"
    /\ rv' = [RvIdle EXCEPT !.last = IF rv.last.kept
                                     THEN [kept |-> TRUE, base |-> rv.base,
                                           target |-> rv.target, out |-> rv.out]
                                     ELSE rv.last]
    /\ UNCHANGED <<store, nextInst, lastInsert, crashed>>
    /\ ResolveIdle

\* a cache with nothing or with every resource on disk, online or offline; the
\* call before is recorded or not
InitResolve ==
    /\ disk \in {DiskMissing, DiskWorld}
    /\ \/ hasClient = TRUE /\ offline = FALSE /\ token = <<"tokA">>
       \/ hasClient = FALSE /\ offline = TRUE /\ token = <<>>
    /\ LET l == LoadEntries(disk.entries, <<>>, 1)
       IN store = l.store /\ nextInst = l.next /\ lastInsert = InstsOf(l.store)
    /\ InitRest
    /\ expiries = 0
    /\ rv \in {RvIdle, [RvIdle EXCEPT !.last.kept = TRUE]}
    /\ pv = NoParse
    /\ uv = NoNormalize

NextResolve ==
    \/ ResolveTarget \/ ResolveRoot \/ ResolveLoopGet \/ ResolveSegment
    \/ ResolveEnd \/ ResolveReturn

SpecResolve == InitResolve /\ [][NextResolve]_vars

\* the resolver runs in the goroutine of its caller, which keeps running: a
\* step that can be taken is taken.  Calls are looked at one at a time.
InitResolveOnce == InitResolve /\ ~rv.last.kept

SpecResolveLive == InitResolveOnce /\ [][NextResolve]_vars /\ WF_vars(NextResolve)

\* ------------------------------------------------------------------
\* Parser.Parse on documents of a few top-level keys
\* ------------------------------------------------------------------

\* top-level keys of one document
MaxKeys == 2

\* the top-level key/value pairs the documents are made of: Members arrays
\* (links with distinct last segments, links with the same last segment, a
\* mixed array, an empty array, a link to "/"), a property and a link-only
\* object under the same key, an array of links under another key, the
\* resource's own @odata.id, a number, a link-only object whose @odata.id is
\* relative, and strings under names that do or do
\* not mark a URI, at the top level and under Actions
TopLevelEntries ==
    {<< <<"Members">>, JA(<<LinkTo(Sys1Path), LinkTo(SystemsPath \o <<"/", "Name">>)>>) >>,
     << <<"Members">>, JA(<<LinkTo(Sys1Path), LinkTo(Chassis1Path)>>) >>,
     << <<"Members">>, JA(<<LinkTo(Sys1Path), JS(<<"x">>)>>) >>,
     << <<"Members">>, JA(<<>>) >>,
     << <<"Members">>, JA(<<LinkTo(<<"/">>)>>) >>,
     << <<"Name">>, JS(<<"Coll">>) >>,
     << <<"Name">>, LinkTo(Chassis1Path) >>,
     << <<"Links">>, JA(<<LinkTo(Sys1Path)>>) >>,
     << ODataIDKey, JS(SystemsPath) >>,
     << <<"1">>, JN(1) >>,
     << <<"Bios">>, LinkTo(<<"Bios">>) >>,
     << <<"Assembly", "Uri">>, JS(Chassis1Path) >>,
     << <<"target">>, JS(<<"/", "x">>) >>,
     << <<"Actions">>,
        JO(<< << <<"#Reset">>,
                 JO(<< << <<"target">>, JS(Sys1Path \o <<"/", "Actions", "/", "Reset">>) >>,
                       << <<"@Redfish.", "ActionInfo">>, JS(<<"/", "x">>) >>,
                       << <<"Image", "URI">>, JS(<<"http:", "/", "x">>) >>,
                       << <<"Note">>, JS(<<"/", "x">>) >> >>) >> >>) >>}

\* the bodies handed to Parse: objects of up to MaxKeys pairs, in every order
\* and with repeated keys, and bytes that are not an object
ParseDocuments ==
    {JBad} \cup {JO(kv) : kv \in UNION {[1..n -> TopLevelEntries] : n \in 0..MaxKeys}}

InitParse ==
    /\ InitOffline /\ InitRest
    /\ expiries = 0
    /\ rv = RvIdle
    /\ uv = NoNormalize
    /\ pv \in {[NoParse EXCEPT !.pc = "call", !.path = q, !.data = d] :
                q \in {SystemsPath, SystemsPath \o <<"/">>, Sys1Path}, d \in ParseDocuments}

\* resource, err := parser.Parse(path, data)
ParserParse ==
    /\ pv.pc = "call"
    /\ pv' = [pv EXCEPT !.pc = "returned", !.out = Parse(pv.path, pv.data, 1)]
    /\ UNCHANGED <<store, offline, hasClient, muW, muR, token, disk, pc, loc,
                   crashed, nextInst, ops, expiries, lastInsert, rv, uv, sv, cv, hv, av, nv, bv>>

\* the tokens names are made of, in the byte order Go's < compares strings
\* by; no token is the beginning of another, so that two names compare as
\* their first differing tokens do
TokenOrder ==
    <<"/", "1", "@Redfish.", "@odata.", "ActionInfo", "Actions", "Assembly",
      "Bios", "Chassis", "Coll", "Image", "Links", "Members", "Name", "Note",
      "Systems", "URI", "Uri", "id", "redfish", "target", "type", "v1", "x">>

\* entries[i].Name < entries[j].Name
RECURSIVE NameLess(_, _)
NameLess(a, b) ==
    LET rank(tok) == CHOOSE i \in 1..Len(TokenOrder) : TokenOrder[i] = tok
    IN IF b = <<>> THEN FALSE
       ELSE IF a = <<>> THEN TRUE
       ELSE IF a[1] = b[1] THEN NameLess(Tail(a), Tail(b))
       ELSE rank(a[1]) < rank(b[1])

entryTypeForProperty(prop) ==
    IF prop.Type = "PropertyObject" THEN "EntryComplex"
    ELSE IF prop.Type = "PropertyArray" THEN "EntryArray"
    ELSE IF prop.Type = "PropertyLink" THEN "EntrySymlink"
    ELSE "EntryProperty"

\* the Entry ListAll appends for one child or one property of the resource
\* (Size and Modified follow from the resource and are left out)
ListEntry(resource, path, item) ==
    IF item[1] = "child"
    THEN LET child == resource.Children[item[2]]
         IN [Name |-> child.Name, Path |-> child.Target,
             Type |-> IF child.Type = "ChildSymlink" THEN "EntrySymlink" ELSE "EntryLink"]
    ELSE LET prop == resource.Properties[item[2]]
         IN [Name |-> prop.Name, Path |-> path \o <<"/">> \o prop.Name,
             Type |-> entryTypeForProperty(prop)]

\* sort.Slice by Name over the entries appended in map order: every
\* arrangement in which no entry stands before one of a smaller name.  The
\* sort is not stable (past a dozen entries it partitions around a pivot) and
\* the maps are walked in no fixed order, so entries of one name may come out
\* either way round; the few entries listed here stand for a resource of any
\* size.
RECURSIVE SortedByName(_, _, _)
SortedByName(resource, path, items) ==
    IF items = {} THEN {<<>>}
    ELSE LET name(i) == ListEntry(resource, path, i).Name
             least == {i \in items : \A j \in items : ~NameLess(name(j), name(i))}
         IN UNION {{<<ListEntry(resource, path, i)>> \o rest :
                       rest \in SortedByName(resource, path, items \ {i})} :
                   i \in least}

\* listings of one resource
MaxListings == 2

\* entries, err := vfs.ListAll(path), on the resource the cache hands over
\* for path: the one parsed from its document.  The error of the Get is
\* handed on with no entries.
ListAll ==
    /\ pv.pc \in {"returned", "listed"}
    /\ Len(pv.listings) < MaxListings
    /\ \E entries \in (IF pv.out.err # "" THEN {<<>>}
                        ELSE SortedByName(pv.out.res, pv.path,
                                 ({"child"} \X DOMAIN pv.out.res.Children)
                                 \cup ({"prop"} \X DOMAIN pv.out.res.Properties))) :
          pv' = [pv EXCEPT !.pc = "listed",
                           !.listings = Append(@, [entries |-> entries, err |-> pv.out.err])]
    /\ UNCHANGED <<store, offline, hasClient, muW, muR, token, disk, pc, loc,
                   crashed, nextInst, ops, expiries, lastInsert, rv, uv, sv, cv, hv, av, nv, bv>>

NextParse == ParserParse \/ ListAll

SpecParse == InitParse /\ [][NextParse]_vars

\* ------------------------------------------------------------------
\* normalizePath on short strings
\* ------------------------------------------------------------------

\* letters of one path string
MaxLen == 4

\* the strings handed to normalizePath: slashes and two names, in every order
NormalizeInputs == UNION {[1..n -> {"/", "a", "b"}] : n \in 0..MaxLen}

InitNormalize ==
    /\ InitOffline /\ InitRest
    /\ disk = DiskMissing
    /\ expiries = 0
    /\ rv = RvIdle
    /\ pv = NoParse
    /\ uv \in {[NoNormalize EXCEPT !.pc = "call", !.path = p] : p \in NormalizeInputs}

\* path = normalizePath(path), and the same again on the result as the cache
\* and the parser do with a path the vfs has normalized already
NormalizeAgain ==
    /\ \/ /\ uv.pc = "call"
          /\ uv' = [uv EXCEPT !.pc = "once", !.once = normalizePath(uv.path)]
       \/ /\ uv.pc = "once"
          /\ uv' = [uv EXCEPT !.pc = "twice", !.twice = normalizePath(uv.once)]
    /\ UNCHANGED <<store, offline, hasClient, muW, muR, token, disk, pc, loc,
                   crashed, nextInst, ops, expiries, lastInsert, rv, pv, sv, cv, hv, av, nv, bv>>

SpecNormalize == InitNormalize /\ [][NormalizeAgain]_vars

\* ------------------------------------------------------------------
\* The TUI's scrape overlay: ScrapeModel under Model.Update
\* ------------------------------------------------------------------

\* scrapes started in one session
MaxScrapes == 2

\* the orders a range over a Go map may visit the keys in
RECURSIVE Orderings(_)
Orderings(keys) ==
    IF keys = {} THEN {<<>>}
    ELSE UNION {{<<k>> \o rest : rest \in Orderings(keys \ {k})} : k \in keys}

\* child.Target for each child of a resource, in one of the orders the range
\* over res.Children may take
ChildTargets(res) ==
    {[i \in 1..Len(o) |-> res.Children[o[i]].Target] : o \in Orderings(DOMAIN res.Children)}

\* the frontier appended to: every target not yet visited
RECURSIVE AppendUnvisited(_, _, _)
AppendUnvisited(frontier, targets, visited) ==
    IF targets = <<>> THEN frontier
    ELSE AppendUnvisited(IF Head(targets) \in visited THEN frontier
                         ELSE Append(frontier, Head(targets)),
                         Tail(targets), visited)

\* Start's breadth-first walk from rootPath over the cached resources: the
\* uncached paths it may collect, in the order it finds them
RECURSIVE Discover(_, _, _)
Discover(frontier, visited, uncached) ==
    IF frontier = <<>> THEN {uncached}
    ELSE LET path == Head(frontier)
             seen == visited \cup {path}
             g == CacheGet(path)
         IN IF path \in visited THEN Discover(Tail(frontier), visited, uncached)
            ELSE IF path \notin DOMAIN store
            THEN Discover(Tail(frontier), seen, Append(uncached, path))
            ELSE IF g.kind # "ok" THEN Discover(Tail(frontier), seen, uncached)
            ELSE UNION {Discover(AppendUnvisited(Tail(frontier), targets, seen),
                                 seen, uncached) :
                           targets \in ChildTargets(g.res)}

\* a tea.Msg or a tea.Cmd in flight.  scrape is the Start the message descends
\* from; late says the Cmd was made by HandleTick after that scrape's Close.
ScrapeMsg(kind, path, scrape) ==
    [kind |-> kind, path |-> path, err |-> "", children |-> <<>>,
     scrape |-> scrape, late |-> FALSE]

\* s.current when Start finds nothing to fetch
EverythingCached == <<"Everything is cached">>

\* fetchNext: nothing when the queue is empty, else s.current = queue[0] and
\* a Cmd that delivers scrapeTickMsg{queue[0]}
fetchNext(s, msgs, scrape) ==
    IF s.queue = <<>> THEN [s EXCEPT !.msgs = msgs]
    ELSE [s EXCEPT !.current = s.queue[1],
                   !.msgs = Append(msgs, ScrapeMsg("tick", s.queue[1], scrape))]

ScrapeIdle ==
    UNCHANGED <<offline, hasClient, muW, muR, token, disk, pc, loc, ops, expiries,
                rv, pv, uv, cv, hv, av, nv, bv>>

\* Model.handleScrape, the "s" key in normal mode: m.mode = ModeScrape and
\* m.scrape.Start(m.basePath)
handleScrape ==
    /\ Running /\ sv.mode = "ModeNormal" /\ sv.scrapes < MaxScrapes
    /\ \E uncached \in Discover(<<RedfishRoot>>, {}, <<>>) :
         LET scrape == sv.scrapes + 1
             started == [sv EXCEPT !.mode = "ModeScrape", !.active = TRUE,
                                   !.queue = uncached, !.done = 0,
                                   !.total = Len(uncached), !.current = <<>>,
                                   !.errors = <<>>, !.scrapes = scrape]
         IN sv' = IF uncached = <<>>
                  THEN [started EXCEPT !.current = EverythingCached]
                  ELSE fetchNext(started, sv.msgs, scrape)
    /\ UNCHANGED <<store, nextInst, lastInsert, crashed>>
    /\ ScrapeIdle

\* Model.handleScrapeKey on the cancel key: m.mode = ModeNormal and
\* m.scrape.Close()
handleScrapeKey ==
    /\ Running /\ sv.mode = "ModeScrape"
    /\ sv' = [sv EXCEPT !.mode = "ModeNormal", !.active = FALSE, !.queue = <<>>,
                        !.closed = @ \cup {sv.scrapes}]
    /\ UNCHANGED <<store, nextInst, lastInsert, crashed>>
    /\ ScrapeIdle

\* msgs with the i-th one replaced by m
Replaced(msgs, i, m) == [msgs EXCEPT ![i] = m]

\* msgs without the i-th one
Removed(msgs, i) == SubSeq(msgs, 1, i - 1) \o SubSeq(msgs, i + 1, Len(msgs))

\* Model.Update on a scrapeTickMsg: m.scrape.HandleTick(msg.Path) returns the
\* Cmd that will call vfs.Get(path)
HandleTick ==
    /\ Running
    /\ \E i \in 1..Len(sv.msgs) :
         /\ sv.msgs[i].kind = "tick"
         /\ sv' = [sv EXCEPT !.msgs = Replaced(@, i,
                       [sv.msgs[i] EXCEPT !.kind = "get",
                                          !.late = sv.msgs[i].scrape \in sv.closed])]
    /\ UNCHANGED <<store, nextInst, lastInsert, crashed>>
    /\ ScrapeIdle

\* the Cmd of HandleTick runs: vfs.Get(path), the targets of the children of
\* the resource, and the scrapeDoneMsg
ScrapeGet ==
    /\ Running
    /\ \E i \in 1..Len(sv.msgs) :
         LET msg == sv.msgs[i]
             g == CacheGet(msg.path)
         IN /\ msg.kind = "get"
            /\ Fetched(g, msg.path)
            /\ \E newChildren \in (IF g.kind = "ok" THEN ChildTargets(g.res) ELSE {<<>>}) :
                 sv' = [sv EXCEPT !.msgs = Replaced(@, i,
                                      [msg EXCEPT !.kind = "done", !.err = g.err,
                                                  !.children = newChildren]),
                                  !.late = IF msg.late THEN Append(@, msg.path) ELSE @]
    /\ ScrapeIdle

\* HandleDone's loop over msg.NewChildren: a child is queued when it is
\* neither cached nor was in the queue before the loop
RECURSIVE QueueChildren(_, _, _)
QueueChildren(queue, children, skipped) ==
    IF children = <<>> THEN queue
    ELSE QueueChildren(IF Head(children) \in skipped THEN queue
                       ELSE Append(queue, Head(children)),
                       Tail(children), skipped)

\* Model.Update on a scrapeDoneMsg: m.scrape.HandleDone(msg)
HandleDone ==
    /\ Running
    /\ \E i \in 1..Len(sv.msgs) :
         LET msg == sv.msgs[i]
             popped == IF sv.queue # <<>> /\ sv.queue[1] = msg.path
                       THEN Tail(sv.queue) ELSE sv.queue
             queued == {popped[j] : j \in 1..Len(popped)}
             queue == IF msg.err # "" THEN popped
                      ELSE QueueChildren(popped, msg.children, DOMAIN store \cup queued)
             counted == [sv EXCEPT !.queue = queue, !.done = @ + 1,
                                   !.total = @ + (Len(queue) - Len(popped)),
                                   !.errors = IF msg.err # ""
                                              THEN Append(@, <<msg.path, msg.err>>)
                                              ELSE @]
         IN /\ msg.kind = "done"
            /\ sv' = fetchNext(counted, Removed(sv.msgs, i), msg.scrape)
    /\ UNCHANGED <<store, nextInst, lastInsert, crashed>>
    /\ ScrapeIdle

\* a cache holding any part of the server's resources, online or offline
InitScrape ==
    /\ disk \in {DiskFile({CacheEntry(q, TRUE, World(q)) : q \in cached}) :
                   cached \in SUBSET WorldPaths}
    /\ \/ hasClient = TRUE /\ offline = FALSE /\ token = <<"tokA">>
       \/ hasClient = FALSE /\ offline = TRUE /\ token = <<>>
    /\ LET l == LoadEntries(disk.entries, <<>>, 1)
       IN store = l.store /\ nextInst = l.next /\ lastInsert = InstsOf(l.store)
    /\ InitRest
    /\ expiries = 0
    /\ rv = RvIdle
    /\ pv = NoParse
    /\ uv = NoNormalize

NextScrape ==
    \/ handleScrape \/ handleScrapeKey \/ HandleTick \/ ScrapeGet \/ HandleDone

SpecScrape == InitScrape /\ [][NextScrape]_vars

\* ------------------------------------------------------------------
\* Tab completion in the shells: CompletionListener.prefetch and completePath
\* ------------------------------------------------------------------

\* nav.cwd
CompleteCwds == {RedfishRoot, SystemsPath, Sys1Path}

\* the partial path under the cursor: nothing, a name, ".." or an absolute
\* path.  None has a "/" or a "[" after its first character, so that
\* splitForCompletion finds no base in the relative ones.
CompletePartials ==
    {<<>>, <<"Systems">>, <<"Status">>, <<".", ".">>,
     RedfishRoot, RedfishRoot \o <<"/">>, SystemsPath, Sys1Path, <<"/", "other">>}

\* Cache.Get(path) goes to c.client.Fetch: not cached and not offline
Fetches(path) == normalizePath(path) \notin DOMAIN store /\ ~offline

CompleteIdle ==
    UNCHANGED <<offline, hasClient, muW, muR, token, disk, pc, loc, ops, expiries,
                pv, uv, sv, hv, av, nv, bv>>

\* CompletionListener.OnChange on a Tab after cd, ls, ll or dump: prefetch of
\* the partial path.  An absolute path is handed to vfs.Get; a partial with
\* no base is left alone.
prefetch ==
    /\ Running /\ cv.pc = "idle" /\ rv.pc = "idle"
    /\ \E cwd \in CompleteCwds, partial \in CompletePartials :
         LET tab == [NoCompletion EXCEPT !.pc = "done", !.cwd = cwd,
                                         !.partial = partial, !.inst = nextInst]
             g == CacheGet(partial)
         IN IF HasPrefix(partial, <<"/">>)
            THEN /\ Fetched(g, partial)
                 /\ cv' = [tab EXCEPT !.fetched = IF Fetches(partial)
                                                   THEN <<partial>> ELSE <<>>]
            ELSE /\ cv' = tab
                 /\ UNCHANGED <<store, nextInst, lastInsert, crashed>>
    /\ UNCHANGED rv
    /\ CompleteIdle

\* completePath(nav, partial): an absolute partial is completed from
\* GetKnownPaths; for a partial with no base, ResolveTarget(RedfishRoot,
\* nav.cwd) is called first
completePath ==
    /\ Running /\ cv.pc = "idle" /\ rv.pc = "idle"
    /\ \E cwd \in CompleteCwds, partial \in CompletePartials :
         LET tab == [NoCompletion EXCEPT !.cwd = cwd, !.partial = partial,
                                         !.inst = nextInst]
         IN IF HasPrefix(partial, <<"/">>)
            THEN /\ cv' = [tab EXCEPT !.pc = "done",
                              !.out = {q \o <<"/">> : q \in
                                         {known \in DOMAIN store :
                                             /\ HasPrefix(known, partial)
                                             /\ known \o <<"/">> # partial}}]
                 /\ UNCHANGED rv
            ELSE /\ cv' = [tab EXCEPT !.pc = "resolving"]
                 /\ rv' = resolveAbsolute(RedfishRoot, cwd)
    /\ UNCHANGED <<store, nextInst, lastInsert, crashed>>
    /\ CompleteIdle

\* completionSuffix(entry, 0)
completionSuffix(type) ==
    IF type \in {"EntryLink", "EntrySymlink", "EntryComplex"} THEN <<"/">>
    ELSE IF type = "EntryArray" THEN <<"[">>
    ELSE <<>>

\* entriesFromProperty: the names and types of the members of an object or
\* the elements of an array
entriesFromProperty(prop) ==
    IF prop.Type = "PropertyObject"
    THEN {[Name |-> name, Type |-> entryTypeForProperty(prop.Children[name])] :
            name \in DOMAIN prop.Children}
    ELSE IF prop.Type = "PropertyArray"
    THEN {[Name |-> prop.Elements[i].Name,
           Type |-> entryTypeForProperty(prop.Elements[i])] :
            i \in 1..Len(prop.Elements)}
    ELSE {}

\* the rest of completePath once ResolveTarget has returned: nil on an error;
\* else listResolved (vfs.ListAll of the resource, or the entries of the
\* property), "../" and "~", and the entries whose name begins with the
\* partial, sorted
completeEntries ==
    /\ Running /\ cv.pc = "resolving" /\ rv.pc = "done"
    /\ LET resolved == rv.out
           listed == resolved.err = "" /\ resolved.Type \in {"TargetResource", "TargetLink"}
           g == CacheGet(resolved.ResourcePath)
           items == ({"child"} \X DOMAIN g.res.Children)
                    \cup ({"prop"} \X DOMAIN g.res.Properties)
           entries == IF listed
                      THEN IF g.kind = "ok"
                           THEN {[Name |-> ListEntry(g.res, resolved.ResourcePath, i).Name,
                                  Type |-> ListEntry(g.res, resolved.ResourcePath, i).Type] :
                                    i \in items}
                           ELSE {}
                      ELSE entriesFromProperty(resolved.Property)
           special == (IF HasPrefix(<<".", ".">>, cv.partial) THEN {<<".", ".", "/">>} ELSE {})
                      \cup (IF HasPrefix(<<"~">>, cv.partial) THEN {<<"~">>} ELSE {})
       IN /\ IF listed
             THEN Fetched(g, resolved.ResourcePath)
             ELSE UNCHANGED <<store, nextInst, lastInsert, crashed>>
          /\ cv' = IF resolved.err # "" THEN [cv EXCEPT !.pc = "done"]
                   ELSE [cv EXCEPT !.pc = "done",
                            !.fetched = IF listed /\ Fetches(resolved.ResourcePath)
                                        THEN Append(@, resolved.ResourcePath) ELSE @,
                            !.out = special \cup
                                    {e.Name \o completionSuffix(e.Type) :
                                       e \in {x \in entries : HasPrefix(x.Name, cv.partial)}}]
    /\ rv' = [RvIdle EXCEPT !.last = rv.last]
    /\ CompleteIdle

\* the suggestions are with the line editor
CompleteReturn ==
    /\ Running /\ cv.pc = "done"
    /\ cv' = NoCompletion
    /\ UNCHANGED <<store, nextInst, lastInsert, crashed, rv>>
    /\ CompleteIdle

\* the shell over a cache holding any part of the server's resources
InitComplete == InitScrape

NextComplete ==
    \/ prefetch \/ completePath
    \/ ResolveRoot \/ ResolveLoopGet \/ ResolveSegment \/ ResolveEnd
    \/ completeEntries \/ CompleteReturn

SpecComplete == InitComplete /\ [][NextComplete]_vars

\* ------------------------------------------------------------------
\* The shells: Navigator.cd and Navigator.open
\* ------------------------------------------------------------------

\* commands typed in one behaviour
MaxCommands == 2

\* the two Navigators: rfsh's, and the one of the shell with a TUI
Shells == {"rfsh", "btsh"}

\* the targets typed after cd or open: nothing, the home, the dots, a child, a
\* path through children, an object property, values, an array, a string that
\* is a link, an array element, a name the resource has not, absolute paths
NavTargets ==
    {<<>>, <<"~">>, <<".">>, <<".", ".">>,
     <<"Systems">>, <<"Systems", "/", "1">>,
     <<"Status">>, <<"Status", "/", "Health">>, <<"BootOrder">>,
     <<"Assembly", "Uri">>, <<"Links", "/", "Chassis", "[", "0", "]">>,
     <<"Id">>, <<"Nope">>, Sys1Path, Sys1Path \o <<"/", "Status", "/">>}

\* path.Dir of a clean path
PathDir(q) ==
    IF LastSlash(q) = 0 THEN <<".">>
    ELSE IF LastSlash(q) = 1 THEN <<"/">>
    ELSE SubSeq(q, 1, LastSlash(q) - 1)

\* vfs.Parent
Parent(q) ==
    LET n == normalizePath(q)
    IN IF n = RedfishRoot \/ n = <<"/">> THEN n ELSE PathDir(n)

\* path.Join(cwd, target) for a cwd and a target without empty or dot
\* segments: the two joined by a slash, the trailing slashes dropped
PathJoin(b, tg) == TrimRightSlash(b \o <<"/">> \o tg)

\* cd of the shell with a TUI: "" and "~" stand for the root
Tilde(tg) == IF tg = <<>> \/ tg = <<"~">> THEN RedfishRoot ELSE tg

\* the command returns err
Fails(a, err) == [a EXCEPT !.pc = "done", !.err = err]

\* the command has its Target and goes on to list it
Lists(a, cwd) == [a EXCEPT !.pc = "listing", !.cwd = cwd]

\* an error returned where the cwd was composed first
cdSwitchComposingFirst(a, out) ==
    IF out.Type = "TargetProperty"
    THEN IF out.Property.Type \in {"PropertyObject", "PropertyArray"}
         THEN Lists(a, PathJoin(a.cwd, a.target))
         ELSE [Fails(a, "CannotCdToValue") EXCEPT !.cwd = PathJoin(a.cwd, a.target)]
    ELSE Lists(a, out.ResourcePath)

\* Navigator.cd once ResolveTarget has returned a Target: the switch on its
\* type
cdSwitch(a, out) ==
    IF out.Type = "TargetProperty"
    THEN IF out.Property.Type \in {"PropertyObject", "PropertyArray"}
         THEN IF HasPrefix(a.target, <<"/">>)
              THEN Lists(a, TrimRightSlash(a.target))
              ELSE IF a.shell = "rfsh"
              THEN Lists(a, a.cwd \o <<"/">> \o a.target)
              ELSE Lists(a, PathJoin(a.cwd, a.target))
         ELSE Fails(a, "CannotCdToValue")
    ELSE Lists(a, out.ResourcePath)

\* Navigator.open once ResolveTarget has returned a Target
openSwitch(a, out) ==
    IF out.Type = "TargetProperty"
    THEN IF out.Property.Type = "PropertyLink"
         THEN Lists(a, out.Property.LinkTarget)
         ELSE IF a.target = <<".">> THEN Lists(a, out.Resource.Path)
         ELSE Fails(a, "CannotOpenProperty")
    ELSE Lists(a, out.ResourcePath)

NavigateIdle ==
    UNCHANGED <<offline, hasClient, muW, muR, token, disk, pc, loc, ops, expiries,
                pv, uv, sv, cv, hv, av, bv>>

\* cd target is typed.  rfsh: "", "~", "." and ".." set the cwd themselves and
\* only print what is there; every other target goes to ResolveTarget(cwd,
\* target).  The other shell replaces "" and "~" by the root first.
cd ==
    /\ Running /\ nv.pc = "idle" /\ rv.pc = "idle" /\ nv.commands < MaxCommands
    /\ \E sh \in Shells, tg \in NavTargets :
         LET a == [nv EXCEPT !.shell = sh, !.cmd = "cd", !.target = tg,
                             !.before = nv.cwd, !.err = "", !.commands = @ + 1]
         IN IF sh = "rfsh" /\ tg \in {<<>>, <<"~">>, <<".">>, <<".", ".">>}
            THEN LET cwd == IF tg = <<".">> THEN nv.cwd
                            ELSE IF tg = <<".", ".">> THEN Parent(nv.cwd)
                            ELSE RedfishRoot
                 IN /\ nv' = [a EXCEPT !.pc = "printing", !.cwd = cwd]
                    /\ rv' = resolveAbsolute(RedfishRoot, cwd)
            ELSE /\ nv' = [a EXCEPT !.pc = "resolving",
                                    !.target = IF sh = "btsh" THEN Tilde(tg) ELSE tg]
                 /\ rv' = resolveAbsolute(nv.cwd, IF sh = "btsh" THEN Tilde(tg) ELSE tg)
    /\ UNCHANGED <<store, nextInst, lastInsert, crashed>>
    /\ NavigateIdle

\* open target is typed
open ==
    /\ Running /\ nv.pc = "idle" /\ rv.pc = "idle" /\ nv.commands < MaxCommands
    /\ \E sh \in Shells, tg \in NavTargets :
         LET a == [nv EXCEPT !.shell = sh, !.cmd = "open", !.target = tg,
                             !.before = nv.cwd, !.err = "", !.commands = @ + 1]
         IN IF tg = <<>>
            THEN nv' = Fails(a, "OpenRequiresTarget") /\ UNCHANGED rv
            ELSE /\ nv' = [a EXCEPT !.pc = "resolving"]
                 /\ rv' = resolveAbsolute(nv.cwd, tg)
    /\ UNCHANGED <<store, nextInst, lastInsert, crashed>>
    /\ NavigateIdle

\* ResolveTarget has returned to cd or open: the error is returned, or the
\* switch sets the cwd; "open ." resolves the cwd itself after an error
navResolved ==
    /\ Running /\ nv.pc \in {"resolving", "again"} /\ rv.pc = "done"
    /\ IF rv.out.err # ""
       THEN IF nv.cmd = "open" /\ nv.target = <<".">> /\ nv.pc = "resolving"
            THEN /\ nv' = [nv EXCEPT !.pc = "again"]
                 /\ rv' = resolveAbsolute(RedfishRoot, nv.cwd)
            ELSE nv' = Fails(nv, rv.out.err) /\ UNCHANGED rv
       ELSE /\ nv' = IF nv.cmd = "cd" THEN cdSwitch(nv, rv.out)
                     ELSE openSwitch(nv, rv.out)
            /\ UNCHANGED rv
    /\ UNCHANGED <<store, nextInst, lastInsert, crashed>>
    /\ NavigateIdle

\* the listing that ends a command: listResolved(resolved) in cd, where a nil
\* Target is dereferenced; vfs.ListAll(n.cwd) in open.  Its error is dropped.
navList ==
    /\ Running /\ nv.pc \in {"printing", "listing"} /\ rv.pc = "done"
    /\ IF rv.out.err # ""
       THEN /\ nv' = [nv EXCEPT !.pc = "panicked"]
            /\ crashed' = TRUE
            /\ UNCHANGED <<store, nextInst, lastInsert>>
       ELSE LET path == IF nv.cmd = "open" THEN nv.cwd ELSE rv.out.ResourcePath
                g == CacheGet(path)
            IN /\ nv' = [nv EXCEPT !.pc = "done"]
               /\ IF nv.cmd = "open" \/ rv.out.Type # "TargetProperty"
                  THEN Fetched(g, path)
                  ELSE UNCHANGED <<store, nextInst, lastInsert, crashed>>
    /\ UNCHANGED rv
    /\ NavigateIdle

\* the prompt is back
NavReturn ==
    /\ Running /\ nv.pc = "done"
    /\ nv' = [nv EXCEPT !.pc = "idle"]
    /\ rv' = [RvIdle EXCEPT !.last = rv.last]
    /\ UNCHANGED <<store, nextInst, lastInsert, crashed>>
    /\ NavigateIdle

\* a shell over a cache holding any part of the server's resources
InitNavigate == InitScrape

NextNavigate ==
    \/ cd \/ open
    \/ ResolveRoot \/ ResolveLoopGet \/ ResolveSegment \/ ResolveEnd
    \/ navResolved \/ navList \/ NavReturn

SpecNavigate == InitNavigate /\ [][NextNavigate]_vars

\* ------------------------------------------------------------------
\* btsh: scrape, find and export, one step per message, and Ctrl-C
\* ------------------------------------------------------------------

\* operations started in one behaviour
MaxRuns == 2

\* the message that carries the next step of an operation
StepMsg == [scrape |-> "scrapeDoneMsg", find |-> "findStepMsg", export |-> "exportStepMsg"]

Msg(kind, path) == [kind |-> kind, path |-> path]

\* the paths the walk of startScrape / startExport marks visited: the cwd and
\* the targets of the children of every cached resource it comes to
RECURSIVE Walked(_, _)
Walked(todo, visited) ==
    IF todo = {} THEN visited
    ELSE LET q == CHOOSE x \in todo : TRUE
             kids == IF q \in DOMAIN store
                     THEN {store[q].Children[k].Target : k \in DOMAIN store[q].Children}
                     ELSE {}
         IN Walked((todo \cup kids) \ (visited \cup {q}), visited \cup {q})

\* the children of a resource in one of the orders the range over
\* res.Children may take
ChildrenInOrder(res) ==
    {[i \in 1..Len(o) |-> res.Children[o[i]]] : o \in Orderings(DOMAIN res.Children)}

\* the loops "for _, child := range res.Children" of the step handlers: the
\* state after the children not yet visited were queued
RECURSIVE EnqueueChildren(_, _, _, _)
EnqueueChildren(b, op, kids, prefix) ==
    IF kids = <<>> THEN b
    ELSE LET child == Head(kids)
             entry == IF op = "find"
                      THEN [path |-> child.Target, prefix |-> Append(prefix, child.Name)]
                      ELSE child.Target
         IN EnqueueChildren(
              IF child.Target \in b.visited[op] THEN b
              ELSE [b EXCEPT !.visited[op] = @ \cup {child.Target},
                             !.queue[op] = Append(@, entry),
                             !.total[op] = @ + 1],
              op, Tail(kids), prefix)

\* finishScrape: the summary, the state cleaned up, a commandResultMsg
finishScrape(b) ==
    [b EXCEPT !.queue["scrape"] = <<>>, !.visited["scrape"] = {}, !.errors = <<>>,
              !.msgs = Append(@, Msg("commandResultMsg", <<>>))]

\* finishExport: cancelled or written, the state cleaned up, a commandResultMsg
finishExport(b) ==
    [b EXCEPT !.queue["export"] = <<>>, !.visited["export"] = {}, !.errors = <<>>,
              !.collected = {}, !.msgs = Append(@, Msg("commandResultMsg", <<>>))]

\* finishFind and what model.handleFindStep does when no command comes back:
\* the find state cleaned up, ModeReady
finishFind(b) ==
    [b EXCEPT !.queue["find"] = <<>>, !.visited["find"] = {}, !.mode = "ModeReady"]

\* a step of scrape or export that does not look at the cancellation flag
fetchStepUnchecked(b, op, msg, g, kids) ==
    LET popped == [b EXCEPT !.queue[op] = IF @ # <<>> /\ @[1] = msg.path
                                          THEN Tail(@) ELSE @,
                            !.done[op] = @ + 1,
                            !.gets = Append(@, msg.path)]
        after == IF g.kind # "ok"
                 THEN [popped EXCEPT !.errors = Append(@, <<msg.path, g.err>>)]
                 ELSE EnqueueChildren(
                        IF op = "export"
                        THEN [popped EXCEPT !.collected = @ \cup {msg.path}]
                        ELSE popped,
                        op, kids, <<>>)
    IN IF after.queue[op] = <<>>
       THEN IF op = "scrape" THEN finishScrape(after) ELSE finishExport(after)
       ELSE [after EXCEPT !.msgs = Append(@, Msg(StepMsg[op], after.queue[op][1]))]

\* handleScrapeDone and handleExportStep: finish when cancelled; else
\* vfs.Get(msg.path) with the result g, the front of the queue removed, the new
\* children queued, and the next step chained or the operation finished
fetchStep(b, op, msg, g, kids) ==
    IF b.cancelled[op]
    THEN IF op = "scrape" THEN finishScrape(b) ELSE finishExport(b)
    ELSE LET popped == [b EXCEPT !.queue[op] = IF @ # <<>> /\ @[1] = msg.path
                                               THEN Tail(@) ELSE @,
                                 !.done[op] = @ + 1,
                                 !.gets = Append(@, msg.path)]
             after == IF g.kind # "ok"
                      THEN [popped EXCEPT !.errors = Append(@, <<msg.path, g.err>>)]
                      ELSE EnqueueChildren(
                             IF op = "export"
                             THEN [popped EXCEPT !.collected = @ \cup {msg.path}]
                             ELSE popped,
                             op, kids, <<>>)
         IN IF after.queue[op] = <<>>
            THEN IF op = "scrape" THEN finishScrape(after) ELSE finishExport(after)
            ELSE [after EXCEPT !.msgs = Append(@, Msg(StepMsg[op], after.queue[op][1]))]

\* the queue of find without its first entry for path
RECURSIVE WithoutEntry(_, _)
WithoutEntry(queue, path) ==
    IF queue = <<>> THEN <<>>
    ELSE IF Head(queue).path = path THEN Tail(queue)
    ELSE <<Head(queue)>> \o WithoutEntry(Tail(queue), path)

\* handleFindStep with model.handleFindStep around it: finish when cancelled;
\* else the entry of msg.path leaves the queue, vfs.Get(msg.path), the
\* children are queued down to the depth limit, and the next step is chained
\* or the find finished
findStep(b, msg, g, kids) ==
    IF b.cancelled["find"] THEN finishFind(b)
    ELSE LET found == {i \in 1..Len(b.queue["find"]) : b.queue["find"][i].path = msg.path}
             prefix == IF found = {} THEN <<>>
                       ELSE b.queue["find"][CHOOSE i \in found :
                                              \A j \in found : i <= j].prefix
             popped == [b EXCEPT !.queue["find"] = WithoutEntry(@, msg.path),
                                 !.done["find"] = @ + 1,
                                 !.gets = Append(@, msg.path)]
             after == IF g.kind # "ok" \/ Len(prefix) >= 5 THEN popped
                      ELSE EnqueueChildren(popped, "find", kids, prefix)
         IN IF after.queue["find"] = <<>> THEN finishFind(after)
            ELSE [after EXCEPT !.msgs = Append(@, Msg("findStepMsg",
                                                     after.queue["find"][1].path))]

OperateIdle ==
    UNCHANGED <<offline, hasClient, muW, muR, token, disk, pc, loc, ops, expiries,
                rv, pv, uv, sv, cv, hv, av, nv>>

\* "scrape" or "export" is entered at the prompt: ModeRunning, then
\* startScrape or startExport: the walk from the cwd over the cached
\* resources, the uncached paths queued, the flag cleared, the first step sent
startFetching ==
    /\ Running /\ bv.mode = "ModeReady" /\ bv.runs < MaxRuns
    /\ \E op \in {"scrape", "export"}, queue \in Discover(<<nv.cwd>>, {}, <<>>) :
         LET running == [bv EXCEPT !.mode = "ModeRunning", !.runs = @ + 1, !.gets = <<>>]
             started == [running EXCEPT !.queue[op] = queue,
                                        !.visited[op] = Walked({nv.cwd}, {}),
                                        !.done[op] = 0, !.total[op] = Len(queue),
                                        !.errors = <<>>, !.cancelled[op] = FALSE,
                                        !.collected = IF op = "export"
                                                      THEN Walked({nv.cwd}, {}) \cap DOMAIN store
                                                      ELSE @]
         IN bv' = IF queue # <<>>
                  THEN [started EXCEPT !.msgs = Append(@, Msg(StepMsg[op], queue[1]))]
                  ELSE IF op = "scrape"
                  THEN [running EXCEPT !.msgs = Append(@, Msg("commandResultMsg", <<>>))]
                  ELSE finishExport(started)
    /\ UNCHANGED <<store, nextInst, lastInsert, crashed>>
    /\ OperateIdle

\* "find pattern" is entered: startFind resolves the cwd (a resource here),
\* queues it, clears the flag and sends the first step; ModeRunning
startFind ==
    /\ Running /\ bv.mode = "ModeReady" /\ bv.runs < MaxRuns
    /\ LET g == CacheGet(nv.cwd)
       IN /\ Fetched(g, nv.cwd)
          /\ bv' = IF g.kind # "ok" THEN [bv EXCEPT !.runs = @ + 1, !.gets = <<>>]
                   ELSE [bv EXCEPT !.mode = "ModeRunning", !.runs = @ + 1, !.gets = <<>>,
                                   !.queue["find"] = <<[path |-> nv.cwd, prefix |-> <<>>]>>,
                                   !.visited["find"] = {nv.cwd},
                                   !.done["find"] = 0, !.total["find"] = 1,
                                   !.cancelled["find"] = FALSE,
                                   !.msgs = Append(@, Msg("findStepMsg", nv.cwd))]
    /\ OperateIdle

\* model.handleRunningKey on Ctrl-C: the flag of every operation whose queue
\* is not empty is set
handleRunningKey ==
    /\ Running /\ bv.mode = "ModeRunning"
    /\ bv' = [bv EXCEPT !.cancelled = [o \in Operations |->
                                         IF bv.queue[o] # <<>> THEN TRUE ELSE @[o]]]
    /\ UNCHANGED <<store, nextInst, lastInsert, crashed>>
    /\ OperateIdle

\* model.Update on a scrapeDoneMsg or an exportStepMsg
FetchStep ==
    /\ Running /\ bv.msgs # <<>>
    /\ \E op \in {"scrape", "export"} :
         LET msg == Head(bv.msgs)
             g == CacheGet(msg.path)
             b == [bv EXCEPT !.msgs = Tail(@)]
         IN /\ msg.kind = StepMsg[op]
            /\ IF bv.cancelled[op]
               THEN UNCHANGED <<store, nextInst, lastInsert, crashed>>
               ELSE Fetched(g, msg.path)
            /\ \E kids \in (IF g.kind = "ok" THEN ChildrenInOrder(g.res) ELSE {<<>>}) :
                 bv' = fetchStep(b, op, msg, g, kids)
    /\ OperateIdle

\* model.Update on a findStepMsg
FindStep ==
    /\ Running /\ bv.msgs # <<>>
    /\ LET msg == Head(bv.msgs)
           g == CacheGet(msg.path)
           b == [bv EXCEPT !.msgs = Tail(@)]
       IN /\ msg.kind = "findStepMsg"
          /\ IF bv.cancelled["find"]
             THEN UNCHANGED <<store, nextInst, lastInsert, crashed>>
             ELSE Fetched(g, msg.path)
          /\ \E kids \in (IF g.kind = "ok" THEN ChildrenInOrder(g.res) ELSE {<<>>}) :
               bv' = findStep(b, msg, g, kids)
    /\ OperateIdle

\* model.handleCommandResult: back to the prompt
handleCommandResult ==
    /\ Running /\ bv.msgs # <<>> /\ Head(bv.msgs).kind = "commandResultMsg"
    /\ bv' = [bv EXCEPT !.msgs = Tail(@), !.mode = "ModeReady"]
    /\ UNCHANGED <<store, nextInst, lastInsert, crashed>>
    /\ OperateIdle

\* btsh over a cache holding any part of the server's resources
InitOperate == InitScrape

NextOperate ==
    \/ startFetching \/ startFind \/ handleRunningKey
    \/ FetchStep \/ FindStep \/ handleCommandResult

SpecOperate == InitOperate /\ [][NextOperate]_vars

\* ------------------------------------------------------------------
\* rfui: the action overlay
\* ------------------------------------------------------------------

\* keys pressed in one behaviour
MaxPresses == 9

\* letters the text input holds
MaxInput == 3

\* the keys: those bound in actionKeys, "!" of normalKeys.Action, and
\* backspace and the letter a, which only the text input takes
ActionKeys == {"esc", "enter", "tab", "y", "n", "a", "j", "k", "!", "backspace"}

Runes == {"y", "n", "a", "j", "k", "!"}

\* discoverActions on the current resource: one action with an allowable-values
\* list, one without parameters
ActionInfos ==
    << [ShortName |-> "Reset",
        Target |-> Sys1Path \o <<"/", "Actions", "/", "Reset">>,
        Allowable |-> << [Name |-> "ResetType",
                          Values |-> << <<"O", "n">>, <<"O", "f", "f">> >>] >>],
       [ShortName |-> "ClearLog",
        Target |-> Sys1Path \o <<"/", "Actions", "/", "ClearLog">>,
        Allowable |-> <<>>] >>

ActionParam(name, value, values) ==
    [Name |-> name, Value |-> value, AllowableValues |-> values, AllowableIndex |-> 0]

\* strconv.ParseFloat takes "nan" in any case
IsNaN(value) == value = <<"n", "a", "n">>

\* ActionModel.BuildBody: the parameters with a value; json.MarshalIndent
\* refuses a NaN
BuildBody(params) ==
    [body |-> SelectSeq(params, LAMBDA q : q.Value # <<>>),
     err |-> IF \E i \in DOMAIN params : IsNaN(params[i].Value)
             THEN "json: unsupported value" ELSE ""]

\* ActionModel.Open
Open(a) ==
    [a EXCEPT !.cursor = 0, !.phase = "PhaseSelect", !.selected = 0,
              !.params = <<>>, !.resultErr = ""]

\* ActionModel.Close
Close(a) == [a EXCEPT !.focus = FALSE]

\* ActionModel.SelectAction
SelectAction(a) ==
    IF a.cursor < 0 \/ a.cursor >= Len(ActionInfos) THEN a
    ELSE LET allowable == ActionInfos[a.cursor + 1].Allowable
             params == [i \in DOMAIN allowable |->
                          ActionParam(allowable[i].Name,
                                      IF allowable[i].Values # <<>>
                                      THEN allowable[i].Values[1] ELSE <<>>,
                                      allowable[i].Values)]
         IN [a EXCEPT !.selected = a.cursor + 1, !.phase = "PhaseParams",
                      !.paramIdx = 0, !.params = params,
                      !.input = IF params # <<>> THEN params[1].Value ELSE @,
                      !.focus = IF params # <<>> THEN TRUE ELSE @]

\* ActionModel.CycleAllowable
CycleAllowable(a) ==
    IF a.phase # "PhaseParams" \/ a.paramIdx >= Len(a.params) THEN a
    ELSE LET q == a.params[a.paramIdx + 1]
             idx == (q.AllowableIndex + 1) % Len(q.AllowableValues)
         IN IF q.AllowableValues = <<>> THEN a
            ELSE [a EXCEPT !.params[a.paramIdx + 1].AllowableIndex = idx,
                           !.params[a.paramIdx + 1].Value = q.AllowableValues[idx + 1],
                           !.input = q.AllowableValues[idx + 1]]

\* ActionModel.ConfirmParams
ConfirmParams(a) ==
    IF a.phase # "PhaseParams" THEN a
    ELSE [a EXCEPT !.params = IF a.paramIdx < Len(a.params)
                              THEN [@ EXCEPT ![a.paramIdx + 1].Value = a.input]
                              ELSE @,
                   !.focus = FALSE, !.phase = "PhaseConfirm",
                   !.confirms = @ + 1]

\* ActionModel.SetResult
SetResult(a, status, err) ==
    [a EXCEPT !.phase = "PhaseResult", !.resultStatus = status, !.resultErr = err]

\* ActionModel.BackPhase: the model after it, and whether the overlay stays
BackPhase(a) ==
    CASE a.phase = "PhaseSelect" -> [a |-> a, stay |-> FALSE]
      [] a.phase = "PhaseParams" ->
           [a |-> [a EXCEPT !.phase = "PhaseSelect", !.focus = FALSE], stay |-> TRUE]
      [] a.phase = "PhaseConfirm" ->
           [a |-> [a EXCEPT !.phase = "PhaseParams",
                            !.input = IF a.params # <<>>
                                      THEN a.params[a.paramIdx + 1].Value ELSE @,
                            !.focus = IF a.params # <<>> THEN TRUE ELSE @],
            stay |-> TRUE]
      [] OTHER -> [a |-> [a EXCEPT !.phase = "PhaseSelect"], stay |-> TRUE]

\* m.mode = ModeNormal; m.action.Close()
CloseOverlay(a) == [Close(a) EXCEPT !.mode = "ModeNormal"]

\* the Cancel branches of handleActionKey in PhaseParams and PhaseConfirm
Back(a) == IF BackPhase(a).stay THEN BackPhase(a).a ELSE CloseOverlay(a)

\* ActionModel.Update in PhaseParams: the key goes to the text input, which
\* takes it when it has the focus
InputUpdate(a, k) ==
    IF ~a.focus THEN a
    ELSE IF k \in Runes THEN [a EXCEPT !.input = Append(@, k)]
    ELSE IF k = "backspace" /\ a.input # <<>>
         THEN [a EXCEPT !.input = SubSeq(@, 1, Len(@) - 1)]
    ELSE a

\* Model.executeAction: the body is built; the command that will call vfs.Post
\* is returned, or the error of BuildBody is the result
executeAction(a) ==
    LET b == BuildBody(a.params)
    IN IF b.err # "" THEN SetResult(a, 0, b.err)
       ELSE [a EXCEPT !.cmds = Append(@, [target |-> ActionInfos[a.selected].Target,
                                          body |-> b.body])]

\* Model.handleActionKey
handleActionKey(a, k) ==
    CASE a.phase = "PhaseSelect" ->
           (CASE k = "esc" -> CloseOverlay(a)
              [] k = "k" -> [a EXCEPT !.cursor = IF @ > 0 THEN @ - 1 ELSE @]
              [] k = "j" -> [a EXCEPT !.cursor = IF @ < Len(ActionInfos) - 1
                                                 THEN @ + 1 ELSE @]
              [] k = "enter" -> SelectAction(a)
              [] OTHER -> a)
      [] a.phase = "PhaseParams" ->
           (CASE k = "esc" -> Back(a)
              [] k = "tab" -> CycleAllowable(a)
              [] k = "enter" -> ConfirmParams(a)
              [] OTHER -> InputUpdate(a, k))
      [] a.phase = "PhaseConfirm" ->
           (CASE k = "y" -> executeAction(a)
              [] k \in {"n", "esc"} -> Back(a)
              [] OTHER -> a)
      [] OTHER -> IF k = "esc" THEN CloseOverlay(a) ELSE a

\* Model.handleActionMode, the "!" key in normal mode, on a resource that has
\* actions
handleActionMode(a) == [Open(a) EXCEPT !.mode = "ModeAction"]

ActionIdle ==
    UNCHANGED <<store, offline, hasClient, muW, muR, token, disk, pc, loc, crashed,
                nextInst, ops, expiries, lastInsert, rv, pv, uv, sv, cv, hv, nv, bv>>

\* Model.handleKey on a key press: normal mode or the overlay
handleKey ==
    /\ av.presses < MaxPresses
    /\ \E k \in ActionKeys :
         LET a == [av EXCEPT !.presses = @ + 1]
             after == IF av.mode = "ModeAction" THEN handleActionKey(a, k)
                      ELSE IF k = "!" THEN handleActionMode(a)
                      ELSE a
         IN Len(after.input) <= MaxInput /\ av' = after
    /\ ActionIdle

\* the results of vfs.Post: the status of an answer, or a network error
PostResults == {[status |-> 200, err |-> ""], [status |-> 400, err |-> "HTTPError"],
                [status |-> 0, err |-> "NetworkError"]}

\* a command returned by executeAction runs: vfs.Post(target, body), and its
\* ActionResultMsg is on the way
PostCmd ==
    /\ \E i \in DOMAIN av.cmds, r \in PostResults :
         av' = [av EXCEPT !.cmds = SubSeq(@, 1, i - 1) \o SubSeq(@, i + 1, Len(@)),
                          !.msgs = Append(@, r),
                          !.posts = @ + 1]
    /\ ActionIdle

\* Model.Update on an ActionResultMsg
ActionResult ==
    /\ av.msgs # <<>>
    /\ av' = [SetResult(av, av.msgs[1].status, av.msgs[1].err) EXCEPT !.msgs = Tail(@)]
    /\ ActionIdle

InitAction == Init

NextAction == handleKey \/ PostCmd \/ ActionResult

SpecAction == InitAction /\ [][NextAction]_vars

\* C10: when ResolveTarget returns for a path whose last segment is a property
\* of kind Link, the Target has kind Link and its resourcePath is the
\* property's linkTarget; the call's last Cache.Get was the one for the
\* resource that holds the property, so the link target itself was not asked
\* for.  A Target of kind Property never carries a Link property.
C10_TailLinkIsReturnedUnfetched ==
    (rv.pc = "done" /\ rv.out.err = "") =>
        /\ rv.out.Property.Type = "PropertyLink" =>
             /\ rv.out.Type = "TargetLink"
             /\ rv.out.ResourcePath = rv.out.Property.LinkTarget
        /\ rv.out.Type = "TargetLink" =>
             /\ rv.out.Property.Type = "PropertyLink"
             /\ rv.gets # <<>>
             /\ normalizePath(rv.gets[Len(rv.gets)]) = rv.out.Resource.Path
             /\ normalizePath(rv.gets[Len(rv.gets)])
                   # normalizePath(rv.out.Property.LinkTarget)

\* Links/Chassis[0] of system 1 on an empty online cache: a Link target for
\* the chassis, and the chassis is not in the cache
C10_Witness ==
    /\ rv.pc = "done" /\ rv.out.Type = "TargetLink"
    /\ rv.target = <<"Links", "/", "Chassis", "[", "0", "]">>
    /\ rv.out.ResourcePath = Chassis1Path
    /\ Chassis1Path \notin DOMAIN store
    /\ Sys1Path \in DOMAIN store

\* ------------------------------------------------------------------
\* Properties of the resolver
\* ------------------------------------------------------------------

\* the iteration at hand is a property lookup: the resource is there and the
\* segment is not one of its children
AtProperty ==
    /\ InLoop /\ ~NeedsResource
    /\ ~(rv.propsNil /\ rv.segments[rv.i] \in DOMAIN rv.currentResource.Children)

\* what the property lookup of the iteration at hand gives
Reached ==
    navigatePropertySegment(IF rv.propsNil THEN rv.currentResource.Properties
                            ELSE rv.currentProps,
                            rv.segments[rv.i])

AtLink == AtProperty /\ ~Reached.panic /\ Reached.err = ""
          /\ Reached.prop.Type = "PropertyLink"

\* C11: a Link property reached with more segments to come makes the link
\* target the current path and puts the resolver back in resource mode with
\* no resource at hand, so that the next segment is resolved against the
\* Resource of Cache.Get(linkTarget); the current path changes only on a child
\* hop or on such a link; the resource at hand is always the one the last
\* Cache.Get returned for the current path; and a call has made at most one
\* Cache.Get per segment it has reached.
C11_LinkFollowedOnlyMidPath ==
    /\ [](/\ Len(rv.gets) <= (IF rv.i = 0 THEN 1 ELSE rv.i)
          /\ (rv.pc = "loop" /\ rv.currentResource # NoResource)
               => /\ rv.gets # <<>>
                  /\ rv.gets[Len(rv.gets)] = rv.currentPath
                  /\ rv.currentResource.Path = normalizePath(rv.currentPath))
    /\ [][/\ (AtLink /\ rv.i < Len(rv.segments) /\ rv' # rv)
               => /\ rv'.pc = "loop" /\ rv'.i = rv.i + 1
                  /\ rv'.currentPath = Reached.prop.LinkTarget
                  /\ rv'.propsNil /\ rv'.currentResource = NoResource
                  /\ rv'.gets = rv.gets
          /\ (rv.pc = "loop" /\ rv'.pc = "loop" /\ rv'.currentPath # rv.currentPath)
               => \/ ~AtProperty /\ ~NeedsResource
                  \/ AtLink /\ rv.i < Len(rv.segments)
          /\ (rv.pc = "loop" /\ rv'.gets # rv.gets)
               => /\ rv'.gets = Append(rv.gets, rv.currentPath)
                  /\ rv'.pc = "loop" => rv'.currentResource = store'[normalizePath(rv.currentPath)]]_vars

\* Links/Chassis[0]/Manufacturer of system 1: the chassis was fetched after
\* the link and Manufacturer is its property
C11_Witness ==
    /\ rv.pc = "done" /\ rv.out.Type = "TargetProperty"
    /\ rv.target = <<"Links", "/", "Chassis", "[", "0", "]", "/", "Manufacturer">>
    /\ rv.out.Property.Value.s = <<"Acme">>
    /\ rv.out.Resource.Path = Chassis1Path
    /\ rv.gets[Len(rv.gets)] = Chassis1Path

\* C12: a segment name[idx] whose index text is not a run of digits (name[abc],
\* name[-1]) never yields a Property: once ResolveTarget is over for a path
\* ending in such a segment it has returned an error and no Property, and it
\* has not crashed on the way.
C12_BadIndexIsAnError ==
    LET seg == rv.segments[Len(rv.segments)]
        k == IndexOfBracket(seg)
        indexStr == SubSeq(seg, k + 1, Len(seg) - 1)
    IN (/\ rv.segments # <<>> /\ k # 0 /\ HasSuffix(seg, <<"]">>)
        /\ (indexStr = <<>> \/ \E j \in 1..Len(indexStr) : ~IsDigit(indexStr[j])))
       => /\ rv.pc # "panicked"
          /\ rv.pc = "done" => (rv.out.err # "" /\ rv.out.Property = NoProp)

\* C13: whenever the property lookup of a segment fails (unknown name, bracket
\* without "]", index into a non-array, index out of range), ResolveTarget
\* returns at once with an error of kind NotFound whose path is the segment
\* or the property name in it.
C13_NavigationFailureIsNotFound ==
    [][(AtProperty /\ ~Reached.panic /\ Reached.err # "" /\ rv' # rv)
         => /\ rv'.pc = "done"
            /\ rv'.out.err = "NotFound"
            /\ rv'.out.Type = "none"
            /\ HasPrefix(rv.segments[rv.i], rv'.out.errPath)]_vars

\* C14: a call whose composed path (the target when it starts with "/", else
\* base + "/" + target) does not begin with /redfish/v1 has failed, without a
\* Cache.Get and with no Target, and the error it returned is of kind
\* InvalidPath; a call whose composed path has the prefix never gets an error
\* of that kind.
C14_PathOutsideRootIsInvalidPath ==
    rv.pc # "idle" =>
        LET path == IF HasPrefix(rv.target, <<"/">>) THEN rv.target
                    ELSE rv.base \o <<"/">> \o rv.target
        IN IF HasPrefix(path, RedfishRoot)
           THEN rv.out.err # "InvalidPath"
           ELSE /\ rv.pc = "done"
                /\ rv.out.err = "InvalidPath"
                /\ rv.out.Type = "none" /\ rv.out.Resource = NoResource
                /\ rv.gets = <<>>

\* the call that has just returned was made after another one, with the base
\* of that call and with its target followed by "/"
AfterItsSlashlessTwin ==
    /\ rv.pc = "done"
    /\ rv.last.out # NoTarget
    /\ rv.base = rv.last.base
    /\ rv.target = rv.last.target \o <<"/">>

\* both calls failed with the same kind of error, or both returned the same
\* Target
SameAsLast ==
    /\ rv.out.err = rv.last.out.err
    /\ rv.out.Type = rv.last.out.Type
    /\ rv.out.Resource = rv.last.out.Resource
    /\ rv.out.Property = rv.last.out.Property
    /\ rv.out.ResourcePath = rv.last.out.ResourcePath

C16_EmptyOnEmptyIsRoot ==
    (rv.pc = "done" /\ rv.base = <<>> /\ rv.target = <<>>)
        => /\ rv.gets = <<RedfishRoot>>
           /\ rv.out.err = "" => /\ rv.out.Type = "TargetResource"
                                 /\ rv.out.ResourcePath = RedfishRoot
                                 /\ rv.out.Resource.Path = RedfishRoot

\* C17: in resource mode with the resource at hand, a segment whose name
\* without its [...] suffix is a Child of that resource moves the resolver to
\* the child's target: the segment is consumed, currentPath is child.target
\* and the resolver is still in resource mode.
C17_ChildLookupStripsIndex ==
    [][LET seg == rv.segments[rv.i]
           k == IndexOfBracket(seg)
           name == IF k = 0 THEN seg ELSE SubSeq(seg, 1, k - 1)
       IN (/\ InLoop /\ ~NeedsResource /\ rv.propsNil
           /\ name \in DOMAIN rv.currentResource.Children
           /\ rv' # rv)
          => /\ rv'.pc = "loop" /\ rv'.i = rv.i + 1
             /\ rv'.currentPath = rv.currentResource.Children[name].Target
             /\ rv'.propsNil]_vars

\* C18: every ResolveTarget call ends, by a return or a crash.  While it is in
\* its loop the segments do not change and the position in them never goes
\* back: a step either fetches the resource the segment is resolved against
\* and leaves the position alone, or consumes exactly one segment.  The
\* position never passes the end by more than one, so the loop makes at most
\* as many iterations as there are segments, and the call makes at most one
\* Cache.Get per iteration and one at the end, also on the path whose links
\* lead from the system to its chassis and back.
C18_ResolveTargetTerminates ==
    /\ [](rv.pc = "loop" => /\ 1 <= rv.i /\ rv.i <= Len(rv.segments) + 1
                            /\ Len(rv.gets) <= rv.i)
    /\ [][(rv.pc = "loop" /\ rv'.pc = "loop" /\ rv' # rv)
            => /\ rv'.segments = rv.segments
               /\ \/ rv'.i = rv.i + 1
                  \/ /\ rv'.i = rv.i
                     /\ rv.currentResource = NoResource
                     /\ rv'.currentResource # NoResource]_vars
    /\ (rv.pc \in {"root", "loop"}) ~> (rv.pc \in {"done", "panicked"})

C18_Witness ==
    /\ rv.pc = "done" /\ rv.base = Sys1Path
    /\ rv.target = <<"Assembly", "Uri", "/", "Links", "/", "ComputerSystems",
                     "[", "0", "]", "/", "Status">>
    /\ rv.gets = <<RedfishRoot, SystemsPath, Sys1Path, Chassis1Path, Sys1Path>>
    /\ rv.out.Type = "TargetProperty" /\ rv.out.Resource.Path = Sys1Path
    /\ rv.i = Len(rv.segments)

\* C19: in every Resource that Parse returns, no name is both a key of
\* Children and a key of Properties.
C19_ChildrenAndPropertiesDisjoint ==
    (pv.pc = "returned" /\ pv.out.err = "")
        => DOMAIN pv.out.res.Children \cap DOMAIN pv.out.res.Properties = {}

C21_PathIsODataID ==
    (pv.pc = "returned" /\ pv.out.err = "")
        => LET id == GetString(pv.data, ODataIDKey)
           IN pv.out.res.Path = normalizePath(IF id # <<>> THEN id ELSE pv.path)

\* every string in value has become, in prop, a Link exactly when it begins
\* with "/" and its name marks a URI as stated, and a Simple property otherwise
RECURSIVE StringsAreLinksAsStated(_, _, _, _)
StringsAreLinksAsStated(name, value, prop, inActions) ==
    CASE value.t = "string" ->
            /\ prop.Type \in {"PropertyLink", "PropertySimple"}
            /\ prop.Type = "PropertyLink" <=>
                 /\ HasPrefix(value.s, <<"/">>)
                 /\ \/ HasSuffix(name, <<"Uri">>) \/ HasSuffix(name, <<"URI">>)
                    \/ name = <<"@Redfish.", "ActionInfo">>
                    \/ name = <<"target">> /\ inActions
      [] value.t = "object" /\ prop.Type = "PropertyObject" ->
            \A j \in 1..Len(value.kv) :
                LET k == value.kv[j][1]
                IN (/\ k \in DOMAIN prop.Children
                    /\ \A h \in (j + 1)..Len(value.kv) : value.kv[h][1] # k)
                   => StringsAreLinksAsStated(k, value.kv[j][2], prop.Children[k],
                                              inActions \/ name = <<"Actions">>)
      [] value.t = "array" /\ prop.Type = "PropertyArray" ->
            \A i \in 1..Len(value.el) :
                StringsAreLinksAsStated(ElemName(i - 1), value.el[i], prop.Elements[i],
                                        inActions)
      [] OTHER -> TRUE

\* C22: in every Resource that Parse returns, a JSON string of the body, at
\* the top level or nested, is a Property of kind Link exactly when it begins
\* with "/" and its name ends with Uri or URI, is @Redfish.ActionInfo, or is
\* target inside an Actions subtree; every other string is a Simple Property.
C22_StringIsLinkExactlyWhenURINamed ==
    (pv.pc = "returned" /\ pv.out.err = "")
        => \A j \in 1..Len(pv.data.kv) :
             LET k == pv.data.kv[j][1]
                 v == pv.data.kv[j][2]
             IN (/\ k \in DOMAIN pv.out.res.Properties
                 /\ \A h \in (j + 1)..Len(pv.data.kv) : pv.data.kv[h][1] # k
                 /\ v.t = "string" \/ (v.t = "object" /\ ~isLinkOnly(v)))
                => StringsAreLinksAsStated(k, v, pv.out.res.Properties[k], FALSE)

\* C23: in every Resource that Parse returns, the target of every Child, made
\* from a top-level link-only object or from an element of Members, begins
\* with "/".
C23_ChildTargetIsAbsolute ==
    (pv.pc = "returned" /\ pv.out.err = "")
        => \A name \in DOMAIN pv.out.res.Children :
              HasPrefix(pv.out.res.Children[name].Target, <<"/">>)

\* C24: normalizePath applied to its own result returns that result, for
\* every path string.
C24_NormalizeIsIdempotent == uv.pc = "twice" => uv.twice = uv.once

\* C25: for every string, the normalized path begins with "/", does not end
\* with "/" unless it is "/" itself, and has no two slashes in a row.
C25_NormalizedPathIsClean ==
    uv.pc \in {"once", "twice"} =>
        /\ HasPrefix(uv.once, <<"/">>)
        /\ HasSuffix(uv.once, <<"/">>) => uv.once = <<"/">>
        /\ \A i \in 1..(Len(uv.once) - 1) : ~(uv.once[i] = "/" /\ uv.once[i + 1] = "/")

\* C26: a Load of a cache file that can be read ends without an error, and
\* when it ends every entry of the file whose data decodes and parses is in
\* the cache, under its path and with the file's data.  While it runs, the
\* cache changes only by the insertion of such an entry: an entry that does
\* not decode or does not parse is passed over and the loop goes on.
C26_LoadSkipsCorruptedEntries ==
    [][\A t \in Threads :
         LET Sound(e) == e.b64ok /\ Parse(e.Path, e.json, 0).err = ""
         IN /\ (pc[t] \in {"load_loop", "load_parse"} /\ pc'[t] = "done")
                => /\ loc'[t].result = "ok"
                   /\ loc[t].rem = {}
                   /\ \A e \in disk.entries :
                        Sound(e) => /\ e.Path \in DOMAIN store'
                                    /\ store'[e.Path].RawJSON = e.json
            /\ (pc[t] \in {"load_loop", "load_parse"} /\ store' # store)
                => \E e \in disk.entries :
                      /\ Sound(e)
                      /\ DOMAIN store' = DOMAIN store \cup {e.Path}
                      /\ store'[e.Path].RawJSON = e.json
                      /\ \A q \in DOMAIN store \ {e.Path} : store'[q] = store[q]]_vars

C26_Witness ==
    \E t \in Threads :
        /\ pc[t] = "done" /\ loc[t].op = "Load" /\ loc[t].result = "ok"
        /\ disk = DiskMixed
        /\ DOMAIN store = {RedfishRoot}
        /\ store[RedfishRoot].Inst > 1

\* C27: no two goroutines are at the same time between taking the cache lock
\* in Save and the end of Save's write of the cache file.
C27_SavesAreSerialized ==
    \A t, u \in Threads : (pc[t] = "save_write" /\ pc[u] = "save_write") => t = u

\* C28: ListAll returns exactly one entry per Child and one per top-level
\* Property of the resource, ordered alphabetically by name, and the same
\* sequence on every call for the same Resource.
C28_ListAllIsSortedAndDeterministic ==
    \A n \in 1..Len(pv.listings) :
        LET entries == pv.listings[n].entries
            res == pv.out.res
        IN pv.listings[n].err = "" =>
              /\ Len(entries) = Cardinality(DOMAIN res.Children)
                                   + Cardinality(DOMAIN res.Properties)
              /\ \A k \in DOMAIN res.Children :
                    \E i \in 1..Len(entries) :
                        /\ entries[i].Name = res.Children[k].Name
                        /\ entries[i].Path = res.Children[k].Target
              /\ \A k \in DOMAIN res.Properties :
                    \E i \in 1..Len(entries) :
                        /\ entries[i].Name = res.Properties[k].Name
                        /\ entries[i].Path = pv.path \o <<"/">> \o k
              /\ \A i, j \in 1..Len(entries) :
                    i < j => ~NameLess(entries[j].Name, entries[i].Name)
              /\ \A m \in 1..Len(pv.listings) : pv.listings[m].entries = entries

\* C29: once the scrape overlay has been closed (Close), the component issues
\* no further vfs.Get for that scrape, whatever tick and done messages are
\* still in flight.
C29_NoGetAfterClose == sv.late = <<>>

\* C30: tab completion never fetches from the network: computing completions
\* for any partial input, with any cache contents and any cwd, results in no
\* Client.Fetch call (none is made, and no resource enters the cache).
C30_CompletionNeverFetches ==
    cv.pc # "idle" => (cv.fetched = <<>> /\ nextInst = cv.inst)

\* C40: during a scrape the progress counters satisfy done <= total at every
\* step, for every interleaving of start, close and fetch-result messages,
\* results that arrive after the scrape was closed and restarted included.
C40_DoneAtMostTotal == sv.done <= sv.total

\* C33: after Invalidate(p) or Clear has returned, the first Get(p) started
\* afterwards calls Client.Fetch (unless it finds the cache offline), even
\* when another Get(p) that missed earlier was in flight while Invalidate
\* ran; and a Resource fetched before the Invalidate is never served to a
\* Get started after it.
C33_GetAfterInvalidateRefetches ==
    \A t \in Threads :
        (loc[t].op = "Get" /\ pc[t] = "done") =>
            /\ (t \in hv.first /\ ~loc[t].sawOffline) => loc[t].fetches >= 1
            /\ (t \in hv.after /\ loc[t].result = "ok")
                  => loc[t].res.Inst \notin hv.stale

C35_GetNeverCrashes ==
    \A t \in Threads :
      (loc[t].op = "Get" /\ hasClient) => pc[t] # "panicked"

\* C36: a Get that takes the fetch branch finds a client attached: a cache
\* built by NewOfflineCache never reaches Client.Fetch, whatever operations
\* are applied to it.
C36_OfflineCacheNeverFetches ==
    \A t \in Threads :
      (loc[t].op = "Get" /\ ~hasClient) => loc[t].fetches = 0

\* Login returns nil in this step of goroutine t
LoginSucceeds(t) ==
    /\ pc[t] \in {"login_chk", "login_tok2"}
    /\ pc'[t] \in {"fetch_tok2", "post_tok2"}

\* C37: whenever Login returns success the client holds a non-empty token:
\* the value of X-Auth-Token, or "session-based" when that header is absent
\* and Location is present.
C37_LoginLeavesToken ==
    [][\A t \in Threads : LoginSucceeds(t) => token' # <<>>]_vars

\* the phase changes of the documented workflow
DocumentedPhaseChanges ==
    {<<"PhaseSelect", "PhaseParams">>, <<"PhaseParams", "PhaseConfirm">>,
     <<"PhaseConfirm", "PhaseResult">>, <<"PhaseConfirm", "PhaseParams">>,
     <<"PhaseParams", "PhaseSelect">>}

\* C31: while the action overlay is open its phase changes only along the
\* documented workflow: Select to Params and Params to Confirm (enter), Confirm
\* to Result (y), Confirm to Params and Params to Select (esc); from Result the
\* overlay closes, and a key press that leaves Result does nothing else.
C31_PhaseChangesAreDocumented ==
    [][/\ (av.mode = "ModeAction" /\ av'.phase # av.phase)
           => <<av.phase, av'.phase>> \in DocumentedPhaseChanges
       /\ (av.mode = "ModeAction" /\ av.phase = "PhaseResult"
           /\ av'.presses # av.presses /\ av' # [av EXCEPT !.presses = @ + 1])
           => av'.mode = "ModeNormal"]_vars

\* C38: the calls of vfs.Post are at most as many as the entries into
\* PhaseConfirm: no entry leads to a second POST.
C38_OnePostPerConfirm == av.posts <= av.confirms

\* C32: when a cd or open command returns an error, the Navigator's cwd is
\* what it was before the command.
C32_ErrorLeavesCwd ==
    (nv.pc = "done" /\ nv.err # "") => nv.cwd = nv.before

\* a cd or open that followed a successful cd away from the root has returned
\* an error
C32_Witness ==
    /\ nv.pc = "done" /\ nv.err # "" /\ nv.commands = 2
    /\ nv.before # RedfishRoot

\* this step is the step handler of operation op, run with its flag set
CancelledStep(op) ==
    /\ bv.msgs # <<>> /\ Head(bv.msgs).kind = StepMsg[op]
    /\ bv.cancelled[op]
    /\ bv' # bv

\* some step message is on the way
StepOnTheWay(b) ==
    \E i \in 1..Len(b.msgs) : b.msgs[i].kind \in {StepMsg[o] : o \in Operations}

\* C39: once the cancellation flag of a running scrape, find or export is
\* set, the next step handler of the operation calls no vfs.Get and finishes
\* the operation: no further step is chained and its queue is dropped.
C39_CancelStopsAtNextStep ==
    [][\A op \in Operations :
         CancelledStep(op) =>
           /\ bv'.gets = bv.gets /\ store' = store
           /\ ~StepOnTheWay(bv')
           /\ bv'.queue[op] = <<>>]_vars

\* an operation was cancelled with paths still queued, after at least one
\* fetch, and is over: btsh is at its prompt again
C39_Witness ==
    /\ bv.mode = "ModeReady" /\ bv.msgs = <<>>
    /\ \E op \in Operations :
         bv.cancelled[op] /\ bv.done[op] >= 1 /\ bv.done[op] < bv.total[op]

====
